---- MODULE Spec2Model ----
(***************************************************************************)
(* Quota ledger and paraphrase-request flow of the PostParaphrase bot.     *)
(*                                                                         *)
(* Two specifications share the variables below.                           *)
(*                                                                         *)
(* SpecLedger: the operations of utils/firebase_utils.py on one document   *)
(* store. The two read-modify-write transactions (update_counts and        *)
(* apply_credit, both under firestore.transactional) are taken at the      *)
(* store's granularity: a read step and a commit step, the function being  *)
(* run again when the document was written in between (the client's cap   *)
(* on the number of attempts is left out: a call that gives up has         *)
(* committed nothing). The other operations make synchronous store calls   *)
(* with no suspension in between and are single steps.                     *)
(*                                                                         *)
(* Spec: handlers/paraphrase_handler.py in the one asyncio process the bot *)
(* runs as. Tasks interleave where a handler really suspends: the provider *)
(* call in the thread pool, bot.get_me() and every reply_text. The calls   *)
(* of the synchronous Firestore client do not suspend, so the read of the  *)
(* user record with the decision, and increment_paraphrases after the last *)
(* message, are each one step.                                             *)
(***************************************************************************)
EXTENDS Integers, Sequences, FiniteSets, TLC

(* ------------------------------ bounds -------------------------------- *)

\* calendar days the clock runs through (1..MaxDay)
MaxDay == 2
\* SpecLedger stops starting commitUsage calls once the usage in an account's
\* lifetime counter (the counter less its referral bonuses) would pass this value
MaxLedgerTotal == 4
\* Spec stops accepting requests of an account whose lifetime counter reached
\* this value (the daily limit and its overshoot lie below it)
MaxReqTotal == 21
\* SpecReferral stops committing usage once the usage in an account's lifetime
\* counter would pass this value
MaxRefUsage == 1
\* the longest provider text, in tokens, that the laws of the text functions cover
MaxTextLen == 4

Users == {"u1", "u2", "u3"}
\* the accounts the clients of SpecLedger create, give a code to and refer
LedgerUsers == {"u1", "u2"}
Tasks == {"t1", "t2"}
\* the accounts whose usage the clients and requests of the model commit
ActiveUsers == {"u1"}
\* the task that handles the updates of SpecCallback, one after another
CallbackTasks == {"t1"}
\* the accounts whose owner presses Try Again in SpecReferral
Inviters == {"u1", "u2"}
\* random suffixes make_invite_code may draw (randint(1000, 9999))
Suffixes == {1000}
\* counts a caller may hand to handle_paraphrase_request; 3 is not an allowed one
Counts == {1, 2, 3, 4}
AllowedCounts == {1, 2, 4}
\* request texts: "" is the empty or absent session text
Texts == {"", "Hello world"}

\* the threads of ThreadPoolExecutor(max_workers=2)
Workers == {"g1", "g2"}
\* the credentials GEMINI_APIS may configure
KeyPools == {<<>>, <<"k1">>, <<"k1", "k2">>, <<"k1", "k2", "k3">>}
\* the credential pool of the specifications that do not follow the manager
OneKey == <<"k1">>
\* the counts generate_paraphrases is called with (0 is not one the handler sends)
GenCounts == {0, 1, 2, 4}
\* what generate_content comes to: it raises, or its response has one of these texts
Responses == {<<>>, <<"SP">>, <<"a">>, <<"SEP">>, <<"a", "SEP", "b">>,
              <<"HEAD", "a", "HEAD", "b">>, <<"a", "BRK", "b">>}

(* ------------------------- program constants -------------------------- *)

DAILY_LIMIT == 20
\* the total at which the handler's gate refuses an unverified account
VERIFY_GATE_TOTAL == 20
\* the threshold the handler's docstring and the specification state
VERIFICATION_THRESHOLD == 10
REFERRAL_BONUS == 20
\* credits per acknowledged referral in acknowledge_referrals_and_apply_credits
CREDIT_PER_REFERRAL == 20
\* _call_gemini(prompt, count, max_retries=2)
MAX_RETRIES == 2

NoDate == 0
NoCode == <<>>

Max(a, b) == IF a >= b THEN a ELSE b

(* ------------------------------ state --------------------------------- *)

VARIABLES
    users,                  \* collection "users": user id -> document
    referrals,              \* collection "referrals": sequence of documents
    paraphrase_events,      \* collection "paraphrase_events": user id -> number of event documents
    verification_messages,  \* collection "verification_messages": user ids with a tracking document
    nowDate,                \* datetime.utcnow() as a calendar day
    pc,                     \* task -> position in its operation
    req,                    \* task -> the operation's arguments
    snap,                   \* task -> what its transaction read
    stale,                  \* task -> its transaction's document was written since the read
    fetched,                \* task -> referral documents its acknowledge call fetched
    trace,                  \* task -> what the current request did so far
    serial,                 \* user id -> the committed transactions applied one after another
    dayLog,                 \* user id -> what was committed and credited on the current day
    keys,                   \* GeminiManager.keys: the configured credentials
    index,                  \* GeminiManager.index
    api_key,                \* GeminiManager.api_key
    gen,                    \* executor thread -> its _call_gemini call
    rot,                    \* the maybe_rotate_key call of periodic_tasks
    split,                  \* the latest call of split_paraphrases
    env,                    \* ADMIN_UNIQUE_STRING and the cached _admin_password_hash
    updates,                \* the message updates dispatched so far and their handler tasks
    user_sessions,          \* user_handler.user_sessions: user id -> session text
    session_docs,           \* users/<id>/session/last: user id -> stored session text
    awaiting_admin_password,\* admin_handler.awaiting_admin_password: the user ids in it
    admins                  \* collection "admins": the registered user ids

\* the GeminiManager singleton, the calls running in its thread pool and the
\* splitter they use
gemini == <<keys, index, api_key, gen, rot, split>>

\* the dispatcher of message updates, the session of text_message and the admin
\* password flow
dialog == <<env, updates, user_sessions, session_docs, awaiting_admin_password, admins>>

vars == <<users, referrals, paraphrase_events, verification_messages, nowDate,
          pc, req, snap, stale, fetched, trace, serial, dayLog, gemini, dialog>>

(* ---------------------------- documents ------------------------------- *)

\* a user id with no document; the fields are what data.get(field, default) yields
NoDoc == [exists |-> FALSE, verified |-> FALSE, paraphrase_total |-> 0,
          paraphrase_today |-> 0, last_paraphrase_date |-> NoDate,
          invite_code |-> NoCode, invites |-> 0]

\* the document create_or_get_user sets for a new user
NewUserDoc == [NoDoc EXCEPT !.exists = TRUE]

make_invite_code(uid, suffix) == <<uid, suffix>>

\* create_or_get_user: the document after the call
create_or_get_user(doc) == IF doc.exists THEN doc ELSE NewUserDoc

\* get_user: doc.to_dict(), or {} read through .get defaults
get_user(doc) == IF doc.exists THEN doc ELSE NoDoc

\* update_counts without the date comparison: the day's counter is never reset
update_counts_lost_reset(data, count, today_str) ==
    IF data.exists
    THEN [data EXCEPT !.paraphrase_total = @ + count,
                      !.paraphrase_today = @ + count,
                      !.last_paraphrase_date = today_str]
    ELSE [NoDoc EXCEPT !.exists = TRUE, !.paraphrase_total = count,
                       !.paraphrase_today = count,
                       !.last_paraphrase_date = today_str]

\* increment_paraphrases.update_counts: the document the transaction writes
update_counts(data, count, today_str) ==
    IF data.exists
    THEN [data EXCEPT !.paraphrase_total = @ + count,
                      !.paraphrase_today =
                          IF data.last_paraphrase_date # today_str
                          THEN count ELSE @ + count,
                      !.last_paraphrase_date = today_str]
    ELSE [NoDoc EXCEPT !.exists = TRUE, !.paraphrase_total = count,
                       !.paraphrase_today = count,
                       !.last_paraphrase_date = today_str]

\* apply_credit without the floor at 0
apply_credit_no_floor(data, earned, today_str) ==
    IF data.exists
    THEN [data EXCEPT !.paraphrase_today =
                          (IF data.last_paraphrase_date # today_str
                           THEN 0 ELSE @) - earned]
    ELSE [NoDoc EXCEPT !.exists = TRUE, !.last_paraphrase_date = today_str]

\* apply_credit that subtracts from the stored counter whatever its date
apply_credit_stored(data, earned, today_str) ==
    IF data.exists
    THEN [data EXCEPT !.paraphrase_today = Max(0, @ - earned)]
    ELSE [NoDoc EXCEPT !.exists = TRUE, !.last_paraphrase_date = today_str]

\* acknowledge_referrals_and_apply_credits.apply_credit: the document written
apply_credit(data, earned, today_str) ==
    IF data.exists
    THEN [data EXCEPT !.paraphrase_today =
                          Max(0, (IF data.last_paraphrase_date # today_str
                                  THEN 0 ELSE @) - earned)]
    ELSE [NoDoc EXCEPT !.exists = TRUE, !.last_paraphrase_date = today_str]

\* ensure_invite_code writing the document with set() instead of update()
ensure_invite_code_set(uid, doc, suffix) ==
    LET d == create_or_get_user(doc)
    IN IF d.invite_code # NoCode THEN d
       ELSE [NewUserDoc EXCEPT !.invite_code = make_invite_code(uid, suffix)]

\* ensure_invite_code drawing a new code at every call
ensure_invite_code_redrawn(uid, doc, suffix) ==
    [create_or_get_user(doc) EXCEPT !.invite_code = make_invite_code(uid, suffix)]

\* ensure_invite_code: the document after the call, suffix being the random draw
ensure_invite_code(uid, doc, suffix) ==
    LET d == create_or_get_user(doc)
    IN IF d.invite_code # NoCode THEN d
       ELSE [d EXCEPT !.invite_code = make_invite_code(uid, suffix)]

\* a fetch that does not look at the acknowledged flag
referrals_of(refs, inviter_id) ==
    {i \in 1..Len(refs) : refs[i].inviter_id = inviter_id}

\* _fetch_unacknowledged_referrals on the collection refs: the documents of
\* inviter_id not yet acknowledged
unacknowledged(refs, inviter_id) ==
    {i \in 1..Len(refs) : refs[i].inviter_id = inviter_id /\ ~refs[i].acknowledged}

\* _fetch_unacknowledged_referrals on the store
fetch_unacknowledged(inviter_id) == unacknowledged(referrals, inviter_id)

\* a batch that marks every document of the inviters of the fetched ones
acknowledge_batch_of_inviter(refs, found) ==
    [i \in 1..Len(refs) |->
        IF \E j \in found : refs[j].inviter_id = refs[i].inviter_id
        THEN [refs[i] EXCEPT !.acknowledged = TRUE] ELSE refs[i]]

\* the acknowledgment batch: the fetched documents updated to acknowledged
acknowledge_batch(refs, found) ==
    [i \in 1..Len(refs) |->
        IF i \in found THEN [refs[i] EXCEPT !.acknowledged = TRUE] ELSE refs[i]]

\* the users whose invite_code equals the code (the where-query of apply_referral)
inviters_of(us, code) == {u \in Users : us[u].exists /\ us[u].invite_code = code}

\* the id apply_referral returns with credited = False (None)
NoInviter == ""

\* apply_referral: the update of the inviter's document
referral_credit(d) == [d EXCEPT !.paraphrase_total = @ + REFERRAL_BONUS,
                                !.invites = @ + 1]

\* apply_referral: the referral document it adds
referral_doc(inviter, new) ==
    [inviter_id |-> inviter, new_user_id |-> new, acknowledged |-> FALSE]

\* apply_referral that does not look whether the new user has a document
apply_referral_no_exists_check(us, refs, new, code) ==
    IF inviters_of(us, code) = {}
    THEN {[credited |-> FALSE, inviter_id |-> NoInviter, users |-> us, referrals |-> refs]}
    ELSE {[credited |-> TRUE, inviter_id |-> i,
           users |-> [us EXCEPT ![new] = create_or_get_user(@),
                                ![i] = referral_credit(@)],
           referrals |-> Append(refs, referral_doc(i, new))] : i \in inviters_of(us, code)}

\* apply_referral that creates the new user's document before it looks for the inviter
apply_referral_create_first(us, refs, new, code) ==
    IF us[new].exists
    THEN {[credited |-> FALSE, inviter_id |-> NoInviter, users |-> us, referrals |-> refs]}
    ELSE IF inviters_of(us, code) = {}
    THEN {[credited |-> FALSE, inviter_id |-> NoInviter,
           users |-> [us EXCEPT ![new] = create_or_get_user(@)], referrals |-> refs]}
    ELSE {[credited |-> TRUE, inviter_id |-> i,
           users |-> [us EXCEPT ![new] = create_or_get_user(@),
                                ![i] = referral_credit(@)],
           referrals |-> Append(refs, referral_doc(i, new))] : i \in inviters_of(us, code)}

\* apply_referral on the store (us, refs): the outcomes of a call that returns,
\* one for each document the invite_code query may yield first
apply_referral(us, refs, new, code) ==
    IF us[new].exists
    THEN {[credited |-> FALSE, inviter_id |-> NoInviter, users |-> us, referrals |-> refs]}
    ELSE IF inviters_of(us, code) = {}
    THEN {[credited |-> FALSE, inviter_id |-> NoInviter, users |-> us, referrals |-> refs]}
    ELSE {[credited |-> TRUE, inviter_id |-> i,
           users |-> [us EXCEPT ![new] = create_or_get_user(@),
                                ![i] = referral_credit(@)],
           referrals |-> Append(refs, referral_doc(i, new))] : i \in inviters_of(us, code)}

\* apply_referral when a store write raises: the users collection left behind,
\* with the writes 1..done made (1 the new user's document, 2 the inviter's update)
apply_referral_raises(us, new, inviter, done) ==
    IF done = 1 THEN [us EXCEPT ![new] = create_or_get_user(@)]
    ELSE [us EXCEPT ![new] = create_or_get_user(@), ![inviter] = referral_credit(@)]

\* acknowledge_referrals_and_apply_credits on the store (us, refs), no other
\* client writing in between: what it returns and the store afterwards
acknowledge_referrals_and_apply_credits(us, refs, inviter_id, today_str) ==
    LET found == unacknowledged(refs, inviter_id)
        count == Cardinality(found)
        earned == count * CREDIT_PER_REFERRAL
    IN IF found = {}
       THEN [returned |-> 0, users |-> us, referrals |-> refs]
       ELSE [returned |-> count,
             users |-> [us EXCEPT ![inviter_id] = apply_credit(@, earned, today_str)],
             referrals |-> acknowledge_batch(refs, found)]

(* ------------------------------ texts --------------------------------- *)

\* A text is a sequence of tokens: the words "a" and "b", "SP" (blanks or one
\* line break), "BRK" (two or more line breaks), "SEP" (the token
\* ###PARAPHRASE_SEPARATOR###) and "HEAD" (a numbered heading at the start of a
\* line, what heading_re matches).
Tokens == {"a", "b", "SP", "BRK", "SEP", "HEAD"}

RECURSIVE TextsOfLen(_)
TextsOfLen(n) ==
    IF n = 0 THEN {<<>>}
    ELSE {Append(t, tok) : t \in TextsOfLen(n - 1), tok \in Tokens}

AllTexts == UNION {TextsOfLen(n) : n \in 0..MaxTextLen}

IsSpace(tok) == tok \in {"SP", "BRK"}

RECURSIVE lstrip(_)
lstrip(t) == IF t # <<>> /\ IsSpace(Head(t)) THEN lstrip(Tail(t)) ELSE t

RECURSIVE rstrip(_)
rstrip(t) ==
    IF t # <<>> /\ IsSpace(t[Len(t)]) THEN rstrip(SubSeq(t, 1, Len(t) - 1)) ELSE t

\* str.strip()
strip(t) == rstrip(lstrip(t))

\* `tok in text`
contains(t, tok) == \E i \in 1..Len(t) : t[i] = tok

\* str.split(tok) and re.split on the token: the pieces between its occurrences
RECURSIVE split_on(_, _)
split_on(t, tok) ==
    IF ~contains(t, tok) THEN <<t>>
    ELSE LET i == CHOOSE k \in 1..Len(t) : t[k] = tok /\ \A j \in 1..(k - 1) : t[j] # tok
         IN <<SubSeq(t, 1, i - 1)>> \o split_on(SubSeq(t, i + 1, Len(t)), tok)

NonEmpty(piece) == piece # <<>>

\* [p.strip() for p in pieces if p.strip()]
stripped_parts(pieces) ==
    SelectSeq([i \in 1..Len(pieces) |-> strip(pieces[i])], NonEmpty)

\* items[:n]
first(items, n) == SubSeq(items, 1, IF Len(items) <= n THEN Len(items) ELSE n)

\* the strings a call returns: a piece of the response, fallback_paraphrase(_, idx)
\* or the "(paraphrase idx)" placeholder of the word chunking
Piece(t) == [kind |-> "text", body |-> t, idx |-> 0]
Fallback(idx) == [kind |-> "fallback", body |-> <<>>, idx |-> idx]
Placeholder(idx) == [kind |-> "placeholder", body |-> <<>>, idx |-> idx]

pieces(parts) == [i \in 1..Len(parts) |-> Piece(parts[i])]

IsWord(tok) == ~IsSpace(tok)

\* txt.split()
words(t) == SelectSeq(t, IsWord)

\* " ".join(chunk)
RECURSIVE join(_)
join(ws) == IF Len(ws) <= 1 THEN ws ELSE <<Head(ws), "SP">> \o join(Tail(ws))

\* the word chunking: words[i * per: (i + 1) * per] for i in range(expected),
\* an empty chunk giving "(paraphrase i + 1)"
chunks(txt, expected) ==
    LET ws == words(txt)
        per == Max(1, Len(ws) \div expected)
        chunk(i) == SubSeq(ws, i * per + 1,
                           IF (i + 1) * per <= Len(ws) THEN (i + 1) * per ELSE Len(ws))
    IN [i \in 1..expected |->
          IF chunk(i - 1) = <<>> THEN Placeholder(i) ELSE Piece(join(chunk(i - 1)))]

\* a splitter that returns the pieces between the separators as they are
split_paraphrases_untrimmed(text, expected) ==
    IF text = <<>>
    THEN [i \in 1..expected |-> Fallback(i)]
    ELSE pieces(first(SelectSeq(split_on(strip(text), "SEP"), NonEmpty), expected))

\* helpers.split_paraphrases(text, expected)
split_paraphrases(text, expected) ==
    IF text = <<>>
    THEN [i \in 1..expected |-> Fallback(i)]
    ELSE LET txt == strip(text)
             parts == stripped_parts(split_on(txt, "SEP"))
             slices == stripped_parts(Tail(split_on(txt, "HEAD")))
             blocks == stripped_parts(split_on(txt, "BRK"))
         IN IF contains(txt, "SEP")
            THEN (IF Len(parts) >= expected
                  THEN pieces(first(parts, expected)) ELSE pieces(parts))
            ELSE IF contains(txt, "HEAD") /\ Len(slices) >= expected
                 THEN pieces(first(slices, expected))
            ELSE IF contains(txt, "HEAD") /\ slices # <<>> THEN pieces(slices)
            ELSE IF Len(blocks) >= expected THEN pieces(first(blocks, expected))
            ELSE IF Len(blocks) > 0 THEN pieces(blocks)
            ELSE chunks(txt, expected)

(* --------------------------- GeminiManager ---------------------------- *)

\* api_key None
NoKey == ""

\* str(response), taken when the response carries no text
ReprText == <<"repr">>

\* parts + [fallback_paraphrase(prompt, idx + 1) for idx in range(len(parts), count)],
\* or parts[:count] when there are enough
supplemented(parts, count) ==
    IF Len(parts) >= count THEN first(parts, count)
    ELSE parts \o [i \in 1..(count - Len(parts)) |-> Fallback(Len(parts) + i)]

\* a try block that returns what the splitting gave, without the supplement
decompose_unsupplemented(response_text, count) ==
    LET text_out == IF response_text = <<>> THEN ReprText ELSE response_text
    IN IF contains(text_out, "SEP")
       THEN pieces(stripped_parts(split_on(text_out, "SEP")))
       ELSE split_paraphrases(text_out, count)

\* _call_gemini: the try block once generate_content has returned a response
\* whose text is response_text
decompose(response_text, count) ==
    LET text_out == IF response_text = <<>> THEN ReprText ELSE response_text
    IN IF contains(text_out, "SEP")
       THEN supplemented(pieces(stripped_parts(split_on(text_out, "SEP"))), count)
       ELSE supplemented(split_paraphrases(text_out, count), count)

\* an except block without the final fallback: the loop goes on and ends
after_failure_no_fallback(attempt, n) ==
    IF attempt < MAX_RETRIES /\ n > 1 THEN "rotate" ELSE "retry"

\* _call_gemini: what the except block does after attempt number `attempt`
\* (from 0) with n credentials
after_failure(attempt, n) ==
    IF attempt < MAX_RETRIES /\ n > 1 THEN "rotate"
    ELSE IF attempt = MAX_RETRIES THEN "fallback"
    ELSE "retry"

\* a rotation that skips a credential
next_index_by_two(idx, n) == (idx + 2) % n

\* (self.index + 1) % len(self.keys)
next_index(idx, n) == (idx + 1) % n

\* a call of generate_paraphrases: where it stands, its count, the attempt of
\* the loop of _call_gemini, the index and the credential a rotation has
\* computed and not yet stored, what it returned (is_none: the loop ended and
\* the function returned None), the credential of its latest attempt and how
\* many of its attempts raised
NoCall == [pc |-> "idle", count |-> 0, attempt |-> 0, next_index |-> 0,
           next_key |-> NoKey, result |-> <<>>, is_none |-> FALSE,
           used |-> NoKey, failed |-> 0]

\* `continue`: the next attempt of range(max_retries + 1), or the end of the loop
continue(call) ==
    IF call.attempt < MAX_RETRIES
    THEN [call EXCEPT !.pc = "attempt", !.attempt = @ + 1]
    ELSE [call EXCEPT !.pc = "returned", !.is_none = TRUE]

\* the maybe_rotate_key call: where it stands, the index it was called at, the
\* index and the credential it computed, what it returned, and whether no
\* executor thread has written index or api_key since it began
NoRotation == [pc |-> "idle", start |-> 0, next_index |-> 0, next_key |-> NoKey,
               returned |-> FALSE, alone |-> TRUE]

\* no call of split_paraphrases yet
NoSplit == [called |-> FALSE, text |-> <<>>, expected |-> 0, out |-> <<>>]

\* GeminiManager.__init__(keys)
InitManager(ks) ==
    /\ keys = ks
    /\ index = 0
    /\ api_key = (IF ks = <<>> THEN NoKey ELSE ks[1])
    /\ gen = [g \in Workers |-> NoCall]
    /\ rot = NoRotation

(* ------------------------- task bookkeeping --------------------------- *)

NoReq == [op |-> "none", user |-> "", text |-> "", count |-> 0, decision |-> "none"]
NoSnap == [doc |-> NoDoc, today_str |-> NoDate]
NewDay(u) == [committed |-> 0, clean |-> TRUE, total0 |-> users[u].paraphrase_total]

TxnPcs == {"inc_txn", "credit_txn"}

\* a write of user u's document by task t (or by no task, t = "") conflicts with
\* every other transaction that has read the document and not yet committed
conflicts(u, t) ==
    [x \in Tasks |-> IF x # t /\ pc[x] \in TxnPcs /\ req[x].user = u
                     THEN TRUE ELSE stale[x]]

\* a commit that is accepted whatever was written since the read
transactional_no_check(t) == TRUE

\* firestore.transactional: the commit of task t's transaction is accepted when
\* the document it read was not written since
transactional(t) == ~stale[t]

(* ------------------- dispatcher and admin password flow ---------------- *)

NoSession == "none"
NoHash == ""

\* the text the admin password was hashed from
AdminPassword == "pw"

\* bcrypt.hashpw on a password
hashpw(plain) == <<"bcrypt", plain>>

\* auth_utils.verify_password
verify_password(plain, hashed) == hashed = hashpw(plain)

\* os.getenv defaults: no ADMIN_UNIQUE_STRING, no ADMIN_PASSWORD_HASH
DefaultEnv == [ADMIN_UNIQUE_STRING |-> "", admin_password_hash |-> NoHash]

\* the environments of a deployment: the admin command and the password hash
\* configured or not
Envs == [ADMIN_UNIQUE_STRING : {"", "secret"},
         admin_password_hash : {NoHash, hashpw(AdminPassword)}]

\* the handler tasks poll_updates_loop creates for an update; "none" is a task
\* that was not created
NoTasks == [text_message |-> "none", catch_admin_password |-> "none", admin_entry |-> "none"]

\* poll_updates_loop, a message that is not /start: the admin command goes to
\* admin_entry, every other text to text_message and catch_admin_password
dispatch(e, text) ==
    IF e.ADMIN_UNIQUE_STRING # "" /\ text \in {e.ADMIN_UNIQUE_STRING, "/" \o e.ADMIN_UNIQUE_STRING}
    THEN [NoTasks EXCEPT !.admin_entry = "ready"]
    ELSE [NoTasks EXCEPT !.text_message = "ready", !.catch_admin_password = "ready"]

InitDialog(e) ==
    /\ env = e
    /\ updates = <<>>
    /\ user_sessions = [u \in Users |-> NoSession]
    /\ session_docs = [u \in Users |-> NoSession]
    /\ awaiting_admin_password = {}
    /\ admins = {}

InitStore ==
    /\ users = [u \in Users |-> NoDoc]
    /\ referrals = <<>>
    /\ paraphrase_events = [u \in Users |-> 0]
    /\ verification_messages = {}
    /\ nowDate = 1

InitTasks ==
    /\ pc = [t \in Tasks |-> "idle"]
    /\ req = [t \in Tasks |-> NoReq]
    /\ snap = [t \in Tasks |-> NoSnap]
    /\ stale = [t \in Tasks |-> FALSE]
    /\ fetched = [t \in Tasks |-> {}]
    /\ trace = [t \in Tasks |-> <<>>]

InitGhost ==
    /\ serial = [u \in Users |-> NoDoc]
    /\ dayLog = [u \in Users |-> [committed |-> 0, clean |-> TRUE, total0 |-> 0]]

(* ------------------- SpecLedger: the store operations ------------------ *)

\* create_or_get_user(user_id)
CreateOrGetUser(u) ==
    /\ ~users[u].exists
    /\ users' = [users EXCEPT ![u] = create_or_get_user(@)]
    /\ serial' = [serial EXCEPT ![u] = create_or_get_user(@)]
    /\ stale' = conflicts(u, "")
    /\ UNCHANGED <<referrals, paraphrase_events, verification_messages, nowDate,
                   pc, req, snap, fetched, trace, dayLog, gemini, dialog>>

\* ensure_invite_code(user_id)
EnsureInviteCode(u) ==
    /\ \E s \in Suffixes :
        /\ users' = [users EXCEPT ![u] = ensure_invite_code(u, @, s)]
        /\ serial' = [serial EXCEPT ![u] = ensure_invite_code(u, @, s)]
    /\ users' # users
    /\ stale' = conflicts(u, "")
    /\ UNCHANGED <<referrals, paraphrase_events, verification_messages, nowDate,
                   pc, req, snap, fetched, trace, dayLog, gemini, dialog>>

\* apply_referral(new_user_id, invite_code) when it credits: the new user has no
\* document and some document holds the code
ApplyReferral(new, code) ==
    /\ \E r \in apply_referral(users, referrals, new, code) :
        /\ r.credited
        /\ users' = r.users
        /\ referrals' = r.referrals
        /\ serial' = [serial EXCEPT ![new] = create_or_get_user(@),
                                    ![r.inviter_id] = referral_credit(@)]
        /\ stale' = [x \in Tasks |->
               IF pc[x] \in TxnPcs /\ req[x].user \in {new, r.inviter_id}
               THEN TRUE ELSE stale[x]]
        /\ dayLog' = [dayLog EXCEPT ![r.inviter_id].clean = FALSE]
    /\ UNCHANGED <<paraphrase_events, verification_messages, nowDate,
                   pc, req, snap, fetched, trace, gemini, dialog>>

\* increment_paraphrases: the transaction runs update_counts, reading the document
IncrementRead(t, u, count) ==
    /\ pc[t] = "idle"
    /\ users[u].paraphrase_total - REFERRAL_BONUS * users[u].invites + count <= MaxLedgerTotal
    /\ pc' = [pc EXCEPT ![t] = "inc_txn"]
    /\ req' = [req EXCEPT ![t] = [op |-> "commitUsage", user |-> u, text |-> "",
                                   count |-> count, decision |-> "none"]]
    /\ snap' = [snap EXCEPT ![t] = [doc |-> users[u], today_str |-> nowDate]]
    /\ stale' = [stale EXCEPT ![t] = FALSE]
    /\ UNCHANGED <<users, referrals, paraphrase_events, verification_messages, nowDate,
                   fetched, trace, serial, dayLog, gemini, dialog>>

\* the transaction commits; on a conflict the decorator runs update_counts again
IncrementCommit(t) ==
    /\ pc[t] = "inc_txn"
    /\ LET u == req[t].user
           c == req[t].count
       IN IF transactional(t)
          THEN /\ users' = [users EXCEPT ![u] = update_counts(snap[t].doc, c, snap[t].today_str)]
               /\ serial' = [serial EXCEPT ![u] = update_counts(@, c, snap[t].today_str)]
               /\ dayLog' = [dayLog EXCEPT ![u] =
                      IF snap[t].today_str = nowDate
                      THEN [@ EXCEPT !.committed = @ + c]
                      ELSE [@ EXCEPT !.clean = FALSE]]
               /\ stale' = conflicts(u, t)
               /\ pc' = [pc EXCEPT ![t] = "inc_log"]
               /\ snap' = [snap EXCEPT ![t] = NoSnap]
          ELSE /\ snap' = [snap EXCEPT ![t] = [doc |-> users[u], today_str |-> nowDate]]
               /\ stale' = [stale EXCEPT ![t] = FALSE]
               /\ UNCHANGED <<users, serial, dayLog, pc>>
    /\ UNCHANGED <<referrals, paraphrase_events, verification_messages, nowDate,
                   req, fetched, trace, gemini, dialog>>

\* increment_paraphrases: the batch of `count` paraphrase_events documents
IncrementLog(t) ==
    /\ pc[t] = "inc_log"
    /\ paraphrase_events' = [paraphrase_events EXCEPT ![req[t].user] = @ + req[t].count]
    /\ pc' = [pc EXCEPT ![t] = "idle"]
    /\ req' = [req EXCEPT ![t] = NoReq]
    /\ UNCHANGED <<users, referrals, verification_messages, nowDate,
                   snap, stale, fetched, trace, serial, dayLog, gemini, dialog>>

\* acknowledge_referrals_and_apply_credits: the fetch; with nothing fetched it returns 0
AckFetch(t, u) ==
    /\ pc[t] = "idle"
    /\ LET found == fetch_unacknowledged(u)
       IN IF found = {}
          THEN UNCHANGED <<pc, req, fetched>>
          ELSE /\ pc' = [pc EXCEPT ![t] = "ack_batch"]
               /\ req' = [req EXCEPT ![t] = [op |-> "acknowledgeAndCredit", user |-> u,
                                             text |-> "", count |-> Cardinality(found),
                                             decision |-> "none"]]
               /\ fetched' = [fetched EXCEPT ![t] = found]
    /\ fetch_unacknowledged(u) # {}
    /\ UNCHANGED <<users, referrals, paraphrase_events, verification_messages, nowDate,
                   snap, stale, trace, serial, dayLog, gemini, dialog>>

\* the acknowledgment batch commits and the credit transaction reads the document
AckBatch(t) ==
    /\ pc[t] = "ack_batch"
    /\ referrals' = acknowledge_batch(referrals, fetched[t])
    /\ pc' = [pc EXCEPT ![t] = "credit_txn"]
    /\ snap' = [snap EXCEPT ![t] = [doc |-> users[req[t].user], today_str |-> nowDate]]
    /\ stale' = [stale EXCEPT ![t] = FALSE]
    /\ UNCHANGED <<users, paraphrase_events, verification_messages, nowDate,
                   req, fetched, trace, serial, dayLog, gemini, dialog>>

\* the credit transaction commits; on a conflict the decorator runs apply_credit again
CreditCommit(t) ==
    /\ pc[t] = "credit_txn"
    /\ LET u == req[t].user
           earned == req[t].count * CREDIT_PER_REFERRAL
       IN IF transactional(t)
          THEN /\ users' = [users EXCEPT ![u] = apply_credit(snap[t].doc, earned, snap[t].today_str)]
               /\ serial' = [serial EXCEPT ![u] = apply_credit(@, earned, snap[t].today_str)]
               /\ dayLog' = [dayLog EXCEPT ![u].clean = FALSE]
               /\ stale' = conflicts(u, t)
               /\ pc' = [pc EXCEPT ![t] = "idle"]
               /\ req' = [req EXCEPT ![t] = NoReq]
               /\ snap' = [snap EXCEPT ![t] = NoSnap]
               /\ fetched' = [fetched EXCEPT ![t] = {}]
          ELSE /\ snap' = [snap EXCEPT ![t] = [doc |-> users[u], today_str |-> nowDate]]
               /\ stale' = [stale EXCEPT ![t] = FALSE]
               /\ UNCHANGED <<users, serial, dayLog, pc, req, fetched>>
    /\ UNCHANGED <<referrals, paraphrase_events, verification_messages, nowDate, trace, gemini, dialog>>

\* datetime.utcnow() passes midnight
AdvanceDay ==
    /\ nowDate < MaxDay
    /\ nowDate' = nowDate + 1
    /\ dayLog' = [u \in Users |-> NewDay(u)]
    /\ UNCHANGED <<users, referrals, paraphrase_events, verification_messages,
                   pc, req, snap, stale, fetched, trace, serial, gemini, dialog>>

InitLedger ==
    /\ InitStore /\ InitTasks /\ InitGhost /\ InitManager(OneKey) /\ split = NoSplit
    /\ InitDialog(DefaultEnv)

NextLedger ==
    \/ \E u \in LedgerUsers : CreateOrGetUser(u)
    \/ \E u \in LedgerUsers : EnsureInviteCode(u)
    \/ \E new \in LedgerUsers, inviter \in LedgerUsers, s \in Suffixes :
           ApplyReferral(new, make_invite_code(inviter, s))
    \/ \E t \in Tasks, u \in ActiveUsers, count \in AllowedCounts : IncrementRead(t, u, count)
    \/ \E t \in Tasks : IncrementCommit(t)
    \/ \E t \in Tasks : IncrementLog(t)
    \/ \E t \in Tasks, u \in ActiveUsers : AckFetch(t, u)
    \/ \E t \in Tasks : AckBatch(t)
    \/ \E t \in Tasks : CreditCommit(t)
    \/ AdvanceDay

SpecLedger == InitLedger /\ [][NextLedger]_vars

(* ------------- referrals during an acknowledgment (SpecAck) ------------ *)

\* The acknowledge calls of one inviter while the other users arrive through
\* the inviter's link, and the inviter's own usage.

NextAck ==
    \/ \E u \in ActiveUsers : EnsureInviteCode(u)
    \/ \E new \in Users, inviter \in ActiveUsers, s \in Suffixes :
           ApplyReferral(new, make_invite_code(inviter, s))
    \/ \E t \in Tasks, u \in ActiveUsers, count \in AllowedCounts : IncrementRead(t, u, count)
    \/ \E t \in Tasks : IncrementCommit(t)
    \/ \E t \in Tasks : IncrementLog(t)
    \/ \E t \in Tasks, u \in ActiveUsers : AckFetch(t, u)
    \/ \E t \in Tasks : AckBatch(t)
    \/ \E t \in Tasks : CreditCommit(t)

SpecAck == InitLedger /\ [][NextAck]_vars

(* --------------- Spec: the paraphrase-request flow -------------------- *)

Event(kind, idx, buttons) == [kind |-> kind, idx |-> idx, buttons |-> buttons]

\* the paraphrase messages the current request of task t has sent
Sent(t) == Cardinality({i \in 1..Len(trace[t]) : trace[t][i].kind = "paraphrase"})

\* a handler that accepts every count
valid_request_any_count(text, count) == text # ""

\* handle_paraphrase_request: the text and count checks that precede every store access
valid_request(text, count) == text # "" /\ count \in {1, 2, 4}

\* the daily limit compared with >= instead of >
check_allowance_ge(user, count) ==
    IF ~user.verified /\ user.paraphrase_total >= VERIFY_GATE_TOTAL
    THEN "NeedsVerification"
    ELSE IF user.paraphrase_today + count >= DAILY_LIMIT
         THEN "DailyLimitExceeded"
         ELSE "Allowed"

\* the daily limit compared without the requested count
check_allowance_no_count(user, count) ==
    IF ~user.verified /\ user.paraphrase_total >= VERIFY_GATE_TOTAL
    THEN "NeedsVerification"
    ELSE IF user.paraphrase_today > DAILY_LIMIT
         THEN "DailyLimitExceeded"
         ELSE "Allowed"

\* handle_paraphrase_request: the decision taken on the user record just read
check_allowance(user, count) ==
    IF ~user.verified /\ user.paraphrase_total >= VERIFY_GATE_TOTAL
    THEN "NeedsVerification"
    ELSE IF user.paraphrase_today + count > DAILY_LIMIT
         THEN "DailyLimitExceeded"
         ELSE "Allowed"

\* the counters updated inside the sending loop, after the first message
all_sent_first(sent, paraphrases) == sent >= 1

\* handle_paraphrase_request: the loop over the paraphrases has sent them all
all_sent(sent, paraphrases) == sent = paraphrases

\* handle_paraphrase_request: the message that carries Add More / New Message
last_message(idx, paraphrases) == idx = paraphrases

\* start_command without a referral payload: create_or_get_user, then the welcome
StartCommand(u) == CreateOrGetUser(u)

\* the external verification page marks the account verified
ExternalVerify(u) ==
    /\ users[u].exists
    /\ ~users[u].verified
    /\ users' = [users EXCEPT ![u].verified = TRUE]
    /\ serial' = [serial EXCEPT ![u].verified = TRUE]
    /\ UNCHANGED <<referrals, paraphrase_events, verification_messages, nowDate,
                   pc, req, snap, stale, fetched, trace, dayLog, gemini, dialog>>

\* handle_paraphrase_request up to its first suspension: the rejections, the read
\* of the user record, the decision and the first reply or the provider call
RequestStart(t, u, text, count) ==
    /\ pc[t] = "idle"
    /\ users[u].paraphrase_total < MaxReqTotal
    /\ LET user == get_user(users[u])
           decision == IF ~valid_request(text, count) THEN "Rejected"
                       ELSE check_allowance(user, count)
           r == [op |-> "paraphrase", user |-> u, text |-> text, count |-> count,
                 decision |-> decision]
       IN /\ req' = [req EXCEPT ![t] = r]
          /\ CASE decision = "Rejected" ->
                    /\ pc' = [pc EXCEPT ![t] = "done"]
                    /\ trace' = [trace EXCEPT ![t] =
                           <<Event(IF text = "" THEN "reply_no_message"
                                   ELSE "reply_invalid_count", 0, FALSE)>>]
               [] decision = "NeedsVerification" ->
                    /\ pc' = [pc EXCEPT ![t] = "verify_store"]
                    /\ trace' = [trace EXCEPT ![t] = <<Event("reply_verify", 0, TRUE)>>]
               [] decision = "DailyLimitExceeded" ->
                    /\ pc' = [pc EXCEPT ![t] = "limit_invite"]
                    /\ trace' = [trace EXCEPT ![t] = <<>>]
               [] OTHER ->
                    /\ pc' = [pc EXCEPT ![t] = "generating"]
                    /\ trace' = [trace EXCEPT ![t] = <<Event("generate", count, FALSE)>>]
    /\ UNCHANGED <<users, referrals, paraphrase_events, verification_messages, nowDate,
                   snap, stale, fetched, serial, dayLog, gemini, dialog>>

\* the verification prompt was sent: store_verification_message
VerifyStore(t) ==
    /\ pc[t] = "verify_store"
    /\ verification_messages' = verification_messages \cup {req[t].user}
    /\ pc' = [pc EXCEPT ![t] = "done"]
    /\ UNCHANGED <<users, referrals, paraphrase_events, nowDate,
                   req, snap, stale, fetched, trace, serial, dayLog, gemini, dialog>>

\* bot.get_me() returned: ensure_invite_code, then the invite reply
LimitInvite(t) ==
    /\ pc[t] = "limit_invite"
    /\ LET u == req[t].user
       IN \E s \in Suffixes :
            /\ users' = [users EXCEPT ![u] = ensure_invite_code(u, @, s)]
            /\ serial' = [serial EXCEPT ![u] = ensure_invite_code(u, @, s)]
    /\ trace' = [trace EXCEPT ![t] = Append(@, Event("reply_limit_invite", 0, TRUE))]
    /\ pc' = [pc EXCEPT ![t] = "done"]
    /\ UNCHANGED <<referrals, paraphrase_events, verification_messages, nowDate,
                   req, snap, stale, fetched, dayLog, gemini, dialog>>

\* generate_paraphrases returned its `count` strings (it answers provider
\* failures with fallback strings and does not raise): the first message is sent
GenerateReturn(t) ==
    /\ pc[t] = "generating"
    /\ trace' = [trace EXCEPT ![t] =
           Append(@, Event("paraphrase", 1, last_message(1, req[t].count)))]
    /\ pc' = [pc EXCEPT ![t] = "sending"]
    /\ UNCHANGED <<users, referrals, paraphrase_events, verification_messages, nowDate,
                   req, snap, stale, fetched, serial, dayLog, gemini, dialog>>

\* a reply_text returned and the loop sends the next paraphrase
SendNext(t) ==
    /\ pc[t] = "sending"
    /\ ~all_sent(Sent(t), req[t].count)
    /\ trace' = [trace EXCEPT ![t] =
           Append(@, Event("paraphrase", Sent(t) + 1,
                           last_message(Sent(t) + 1, req[t].count)))]
    /\ UNCHANGED <<users, referrals, paraphrase_events, verification_messages, nowDate,
                   pc, req, snap, stale, fetched, serial, dayLog, gemini, dialog>>

\* the last reply_text returned: increment_paraphrases, transaction and event batch
Commit(t) ==
    /\ pc[t] = "sending"
    /\ all_sent(Sent(t), req[t].count)
    /\ LET u == req[t].user
           c == req[t].count
       IN /\ users' = [users EXCEPT ![u] = update_counts(@, c, nowDate)]
          /\ serial' = [serial EXCEPT ![u] = update_counts(@, c, nowDate)]
          /\ dayLog' = [dayLog EXCEPT ![u].committed = @ + c]
          /\ paraphrase_events' = [paraphrase_events EXCEPT ![u] = @ + c]
          /\ trace' = [trace EXCEPT ![t] = Append(@, Event("commit", c, FALSE))]
    /\ pc' = [pc EXCEPT ![t] = "done"]
    /\ UNCHANGED <<referrals, verification_messages, nowDate,
                   req, snap, stale, fetched, gemini, dialog>>

\* the handler returns and its task ends
Finish(t) ==
    /\ pc[t] = "done"
    /\ pc' = [pc EXCEPT ![t] = "idle"]
    /\ req' = [req EXCEPT ![t] = NoReq]
    /\ trace' = [trace EXCEPT ![t] = <<>>]
    /\ UNCHANGED <<users, referrals, paraphrase_events, verification_messages, nowDate,
                   snap, stale, fetched, serial, dayLog, gemini, dialog>>

Init ==
    /\ InitStore /\ InitTasks /\ InitGhost /\ InitManager(OneKey) /\ split = NoSplit
    /\ InitDialog(DefaultEnv)

Next ==
    \/ \E u \in ActiveUsers : StartCommand(u)
    \/ \E u \in ActiveUsers : ExternalVerify(u)
    \/ \E t \in Tasks, u \in ActiveUsers, text \in Texts, count \in Counts :
           RequestStart(t, u, text, count)
    \/ \E t \in Tasks : VerifyStore(t)
    \/ \E t \in Tasks : LimitInvite(t)
    \/ \E t \in Tasks : GenerateReturn(t)
    \/ \E t \in Tasks : SendNext(t)
    \/ \E t \in Tasks : Commit(t)
    \/ \E t \in Tasks : Finish(t)
    \/ AdvanceDay

Spec == Init /\ [][Next]_vars

(* ------- SpecReferral: /start with a payload and Try Again ------------ *)

\* The referral handlers in the one asyncio process. apply_referral and
\* acknowledge_referrals_and_apply_credits make synchronous store calls only, so
\* a call that returns is one step; the handlers suspend at send_message,
\* bot.get_me() and reply_text. A store write may raise: the writes made before
\* it stay, the later ones are not made. The day's commit log (dayLog) belongs to
\* the ledger claims and is not kept here.

\* the payloads of /start: the codes make_invite_code can have drawn; one that no
\* account holds is a code nobody was given
Payloads == {make_invite_code(i, s) : i \in Inviters, s \in Suffixes}

StartReq(new, code, decision, inviter, created) ==
    [op |-> "start", user |-> new, text |-> "", count |-> 0, decision |-> decision,
     code |-> code, inviter_id |-> inviter, created |-> created]

\* acked: the referral documents of u that were acknowledged when the call began
TryInviteReq(u, returned, decision) ==
    [op |-> "try_invite", user |-> u, text |-> "", count |-> returned,
     decision |-> decision,
     acked |-> Cardinality({k \in 1..Len(referrals) :
                     referrals[k].inviter_id = u /\ referrals[k].acknowledged})]

\* start_command with a payload, up to its first suspension: apply_referral
\* returns; credited, the inviter is notified; otherwise create_or_get_user and
\* the welcome follow at once
StartReferral(t, new, code) ==
    /\ pc[t] = "idle"
    /\ \E r \in apply_referral(users, referrals, new, code) :
        /\ referrals' = r.referrals
        /\ req' = [req EXCEPT ![t] =
               StartReq(new, code, IF r.credited THEN "Credited" ELSE "NotCredited",
                        r.inviter_id, r.credited)]
        /\ IF r.credited
           THEN /\ users' = r.users
                /\ serial' = r.users
                /\ trace' = [trace EXCEPT ![t] = <<Event("notify_inviter", 0, FALSE)>>]
                /\ pc' = [pc EXCEPT ![t] = "start_notify"]
           ELSE /\ users' = [r.users EXCEPT ![new] = create_or_get_user(@)]
                /\ serial' = users'
                /\ trace' = [trace EXCEPT ![t] = <<Event("reply_welcome", 0, FALSE)>>]
                /\ pc' = [pc EXCEPT ![t] = "done"]
    /\ UNCHANGED <<paraphrase_events, verification_messages, nowDate,
                   snap, stale, fetched, dayLog, gemini, dialog>>

\* start_command when a write of apply_referral raises after `done` writes: the
\* exception is logged, create_or_get_user and the welcome follow
StartReferralRaises(t, new, code, done) ==
    /\ pc[t] = "idle"
    /\ ~users[new].exists
    /\ \E inviter \in inviters_of(users, code) :
        /\ users' = [apply_referral_raises(users, new, inviter, done)
                        EXCEPT ![new] = create_or_get_user(@)]
        /\ serial' = users'
        /\ req' = [req EXCEPT ![t] = StartReq(new, code, "Raised", NoInviter, done >= 1)]
    /\ trace' = [trace EXCEPT ![t] = <<Event("reply_welcome", 0, FALSE)>>]
    /\ pc' = [pc EXCEPT ![t] = "done"]
    /\ UNCHANGED <<referrals, paraphrase_events, verification_messages, nowDate,
                   snap, stale, fetched, dayLog, gemini, dialog>>

\* send_message to the inviter returned or raised: create_or_get_user, the welcome
StartNotified(t) ==
    /\ pc[t] = "start_notify"
    /\ users' = [users EXCEPT ![req[t].user] = create_or_get_user(@)]
    /\ serial' = users'
    /\ trace' = [trace EXCEPT ![t] = Append(@, Event("reply_welcome", 0, FALSE))]
    /\ pc' = [pc EXCEPT ![t] = "done"]
    /\ UNCHANGED <<referrals, paraphrase_events, verification_messages, nowDate,
                   req, snap, stale, fetched, dayLog, gemini, dialog>>

\* callback try_invite up to its first suspension:
\* acknowledge_referrals_and_apply_credits returns; with a count the credit reply
\* is sent, with 0 bot.get_me() is awaited
TryInvite(t, u) ==
    /\ pc[t] = "idle"
    /\ LET r == acknowledge_referrals_and_apply_credits(users, referrals, u, nowDate)
       IN /\ users' = r.users
          /\ serial' = r.users
          /\ referrals' = r.referrals
          /\ req' = [req EXCEPT ![t] = TryInviteReq(u, r.returned, "Returned")]
          /\ IF r.returned > 0
             THEN /\ trace' = [trace EXCEPT ![t] =
                         <<Event("reply_earned", r.returned, FALSE)>>]
                  /\ pc' = [pc EXCEPT ![t] = "done"]
             ELSE /\ trace' = [trace EXCEPT ![t] = <<>>]
                  /\ pc' = [pc EXCEPT ![t] = "invite_none"]
    /\ UNCHANGED <<paraphrase_events, verification_messages, nowDate,
                   snap, stale, fetched, dayLog, gemini, dialog>>

\* bot.get_me() returned: ensure_invite_code, then the reply with Share / Try Again
TryInviteNone(t) ==
    /\ pc[t] = "invite_none"
    /\ LET u == req[t].user
       IN \E s \in Suffixes :
            /\ users' = [users EXCEPT ![u] = ensure_invite_code(u, @, s)]
            /\ serial' = users'
    /\ trace' = [trace EXCEPT ![t] = Append(@, Event("reply_no_invites", 0, TRUE))]
    /\ pc' = [pc EXCEPT ![t] = "done"]
    /\ UNCHANGED <<referrals, paraphrase_events, verification_messages, nowDate,
                   req, snap, stale, fetched, dayLog, gemini, dialog>>

\* callback try_invite when acknowledge_referrals_and_apply_credits raises, after
\* the acknowledgment batch (marked) or before it: the error reply is sent
TryInviteRaises(t, u, marked) ==
    /\ pc[t] = "idle"
    /\ marked => fetch_unacknowledged(u) # {}
    /\ referrals' = IF marked
                    THEN acknowledge_batch(referrals, fetch_unacknowledged(u))
                    ELSE referrals
    /\ req' = [req EXCEPT ![t] = TryInviteReq(u, 0, "Raised")]
    /\ trace' = [trace EXCEPT ![t] = <<Event("reply_error", 0, FALSE)>>]
    /\ pc' = [pc EXCEPT ![t] = "done"]
    /\ UNCHANGED <<users, paraphrase_events, verification_messages, nowDate,
                   snap, stale, fetched, serial, dayLog, gemini, dialog>>

\* increment_paraphrases(user_id, count) at the end of a request: the transaction
\* and the event batch, with no suspension in between
IncrementParaphrases(u, count) ==
    /\ users[u].exists
    /\ users[u].paraphrase_total - REFERRAL_BONUS * users[u].invites + count <= MaxRefUsage
    /\ users' = [users EXCEPT ![u] = update_counts(@, count, nowDate)]
    /\ serial' = users'
    /\ paraphrase_events' = [paraphrase_events EXCEPT ![u] = @ + count]
    /\ UNCHANGED <<referrals, verification_messages, nowDate,
                   pc, req, snap, stale, fetched, trace, dayLog, gemini, dialog>>

\* datetime.utcnow() passes midnight
Midnight ==
    /\ nowDate < MaxDay
    /\ nowDate' = nowDate + 1
    /\ UNCHANGED <<users, referrals, paraphrase_events, verification_messages,
                   pc, req, snap, stale, fetched, trace, serial, dayLog, gemini, dialog>>

NextReferral ==
    \/ \E t \in Tasks, new \in Users, code \in Payloads : StartReferral(t, new, code)
    \/ \E t \in Tasks, new \in Users, code \in Payloads, done \in 1..2 :
           StartReferralRaises(t, new, code, done)
    \/ \E t \in Tasks : StartNotified(t)
    \/ \E t \in Tasks, u \in Inviters : TryInvite(t, u)
    \/ \E t \in Tasks : TryInviteNone(t)
    \/ \E t \in Tasks, u \in Inviters, marked \in BOOLEAN : TryInviteRaises(t, u, marked)
    \/ \E u \in ActiveUsers, count \in AllowedCounts : IncrementParaphrases(u, count)
    \/ \E t \in Tasks : Finish(t)
    \/ Midnight

SpecReferral == Init /\ [][NextReferral]_vars

(* ------------- SpecCallback: callback_query_handler ------------------- *)

\* One update at a time through callback_query_handler and start_command: the
\* payload of the pressed button decides the branch. The session text and the
\* last choice the handler reads are inputs (a text, or none; any count).

\* callback data that ends the handler before any branch replies: json.loads
\* fails (logged, return); the JSON value is not an object (data.get raises); the
\* count of a choose payload is not a number (int raises); the action is none of
\* the five the handler knows (no branch is taken)
SilentPayloads == {"unparseable", "not_an_object", "bad_count", "unknown_action"}

CallbackReq(u, payload) ==
    [op |-> "callback", user |-> u, text |-> "", count |-> 0, decision |-> payload]

\* callback_query_handler on a payload of SilentPayloads: it returns, or raises to
\* the dispatcher, with nothing sent and nothing written
CallbackSilent(t, u, payload) ==
    /\ pc[t] = "idle"
    /\ req' = [req EXCEPT ![t] = CallbackReq(u, payload)]
    /\ trace' = [trace EXCEPT ![t] = <<>>]
    /\ pc' = [pc EXCEPT ![t] = "done"]
    /\ UNCHANGED <<users, referrals, paraphrase_events, verification_messages, nowDate,
                   snap, stale, fetched, serial, dayLog, gemini, dialog>>

\* callback new_message: the session is cleared and the prompt is sent
CallbackNewMessage(t, u) ==
    /\ pc[t] = "idle"
    /\ req' = [req EXCEPT ![t] = CallbackReq(u, "new_message")]
    /\ trace' = [trace EXCEPT ![t] = <<Event("reply_new_message", 0, FALSE)>>]
    /\ pc' = [pc EXCEPT ![t] = "done"]
    /\ UNCHANGED <<users, referrals, paraphrase_events, verification_messages, nowDate,
                   snap, stale, fetched, serial, dayLog, gemini, dialog>>

NextCallback ==
    \/ \E t \in CallbackTasks, u \in ActiveUsers, payload \in SilentPayloads :
           CallbackSilent(t, u, payload)
    \/ \E t \in CallbackTasks, u \in ActiveUsers : CallbackNewMessage(t, u)
    \/ \E t \in CallbackTasks, u \in ActiveUsers, text \in Texts, count \in Counts :
           RequestStart(t, u, text, count)
    \/ \E t \in CallbackTasks : VerifyStore(t)
    \/ \E t \in CallbackTasks : LimitInvite(t)
    \/ \E t \in CallbackTasks : GenerateReturn(t)
    \/ \E t \in CallbackTasks : SendNext(t)
    \/ \E t \in CallbackTasks : Commit(t)
    \/ \E t \in CallbackTasks, new \in LedgerUsers, code \in Payloads :
           StartReferral(t, new, code)
    \/ \E t \in CallbackTasks : StartNotified(t)
    \/ \E t \in CallbackTasks, u \in ActiveUsers : TryInvite(t, u)
    \/ \E t \in CallbackTasks : TryInviteNone(t)
    \/ \E t \in CallbackTasks, u \in ActiveUsers, marked \in BOOLEAN :
           TryInviteRaises(t, u, marked)
    \/ \E u \in ActiveUsers : ExternalVerify(u)
    \/ \E t \in CallbackTasks : Finish(t)
    \/ AdvanceDay

SpecCallback == Init /\ [][NextCallback]_vars

(* ------------- generate_paraphrases (SpecGenerate) -------------------- *)

\* Calls of generate_paraphrases run _call_gemini in the two threads of the
\* executor. The threads share index and api_key and take no lock, so a rotation
\* is four steps: it computes the next index, stores it, reads the credential
\* of the index, and stores that.

bot == <<users, referrals, paraphrase_events, verification_messages, nowDate,
         pc, req, snap, stale, fetched, trace, serial, dayLog>>

InitGenerate ==
    /\ InitStore /\ InitTasks /\ InitGhost /\ InitDialog(DefaultEnv)
    /\ \E ks \in KeyPools : InitManager(ks)
    /\ split = NoSplit

\* generate_paraphrases(text, count) up to the hand-over to the executor
GenerateCall(g, count) ==
    /\ gen[g].pc = "idle"
    /\ gen' = [gen EXCEPT ![g] =
                 IF api_key = NoKey
                 THEN [NoCall EXCEPT !.pc = "returned", !.count = count,
                                     !.result = [i \in 1..count |-> Fallback(i)]]
                 ELSE [NoCall EXCEPT !.pc = "attempt", !.count = count]]
    /\ UNCHANGED <<dialog, bot, keys, index, api_key, rot, split>>

\* an attempt, configured with api_key, whose generate_content returns a response
AttemptReturns(g, response_text) ==
    /\ gen[g].pc = "attempt"
    /\ gen' = [gen EXCEPT ![g].pc = "returned",
                          ![g].used = api_key,
                          ![g].result = decompose(response_text, gen[g].count)]
    /\ UNCHANGED <<dialog, bot, keys, index, api_key, rot, split>>

\* an attempt, configured with api_key, that raises: the except block
AttemptFails(g) ==
    /\ gen[g].pc = "attempt"
    /\ LET todo == after_failure(gen[g].attempt, Len(keys))
           call == [gen[g] EXCEPT !.used = api_key, !.failed = @ + 1]
       IN gen' = [gen EXCEPT ![g] =
                    CASE todo = "rotate" ->
                           [call EXCEPT !.pc = "rotate_store",
                                        !.next_index = next_index(index, Len(keys))]
                      [] todo = "fallback" ->
                           [call EXCEPT !.pc = "returned",
                                        !.result = [i \in 1..call.count |-> Fallback(i)]]
                      [] OTHER -> continue(call)]
    /\ UNCHANGED <<dialog, bot, keys, index, api_key, rot, split>>

\* the thread writes index or api_key while maybe_rotate_key is running
overlapped(r) ==
    IF r.pc \in {"store", "key", "set"} THEN [r EXCEPT !.alone = FALSE] ELSE r

\* self.index = ...
RotateStore(g) ==
    /\ gen[g].pc = "rotate_store"
    /\ index' = gen[g].next_index
    /\ gen' = [gen EXCEPT ![g].pc = "rotate_key", ![g].next_index = 0]
    /\ rot' = overlapped(rot)
    /\ UNCHANGED <<dialog, bot, keys, api_key, split>>

\* self.keys[self.index]
RotateKey(g) ==
    /\ gen[g].pc = "rotate_key"
    /\ gen' = [gen EXCEPT ![g].pc = "rotate_set", ![g].next_key = keys[index + 1]]
    /\ UNCHANGED <<dialog, bot, keys, index, api_key, rot, split>>

\* self.api_key = ...; genai.configure; continue
RotateSet(g) ==
    /\ gen[g].pc = "rotate_set"
    /\ api_key' = gen[g].next_key
    /\ gen' = [gen EXCEPT ![g] = continue([@ EXCEPT !.next_key = NoKey])]
    /\ rot' = overlapped(rot)
    /\ UNCHANGED <<dialog, bot, keys, index, split>>

\* the caller has the list
GenerateDone(g) ==
    /\ gen[g].pc = "returned"
    /\ gen' = [gen EXCEPT ![g] = NoCall]
    /\ UNCHANGED <<dialog, bot, keys, index, api_key, rot, split>>

\* maybe_rotate_key, called by periodic_tasks on the event loop: it takes the
\* lock, which no executor thread takes, and returns False with fewer than two
\* credentials; otherwise it computes the next index
MaybeRotateKey ==
    /\ rot.pc = "idle"
    /\ rot' = IF Len(keys) <= 1
              THEN [NoRotation EXCEPT !.pc = "returned", !.start = index]
              ELSE [NoRotation EXCEPT !.pc = "store", !.start = index,
                                      !.next_index = next_index(index, Len(keys))]
    /\ UNCHANGED <<dialog, bot, keys, index, api_key, gen, split>>

\* self.index = ...
MaybeRotateStore ==
    /\ rot.pc = "store"
    /\ index' = rot.next_index
    /\ rot' = [rot EXCEPT !.pc = "key"]
    /\ UNCHANGED <<dialog, bot, keys, api_key, gen, split>>

\* self.keys[self.index]
MaybeRotateKeyed ==
    /\ rot.pc = "key"
    /\ rot' = [rot EXCEPT !.pc = "set", !.next_key = keys[index + 1]]
    /\ UNCHANGED <<dialog, bot, keys, index, api_key, gen, split>>

\* self.api_key = ...; genai.configure; return True
MaybeRotateSet ==
    /\ rot.pc = "set"
    /\ api_key' = rot.next_key
    /\ rot' = [rot EXCEPT !.pc = "returned", !.returned = TRUE, !.next_key = NoKey]
    /\ UNCHANGED <<dialog, bot, keys, index, gen, split>>

\* periodic_tasks sleeps until its next round
MaybeRotateDone ==
    /\ rot.pc = "returned"
    /\ rot' = NoRotation
    /\ UNCHANGED <<dialog, bot, keys, index, api_key, gen, split>>

NextGenerate ==
    \/ \E g \in Workers, count \in GenCounts : GenerateCall(g, count)
    \/ \E g \in Workers, response_text \in Responses : AttemptReturns(g, response_text)
    \/ \E g \in Workers : AttemptFails(g)
    \/ \E g \in Workers : RotateStore(g)
    \/ \E g \in Workers : RotateKey(g)
    \/ \E g \in Workers : RotateSet(g)
    \/ \E g \in Workers : GenerateDone(g)

SpecGenerate == InitGenerate /\ [][NextGenerate]_vars

(* ------------- credential rotation (SpecRotate) ------------------------ *)

\* The calls of generate_paraphrases together with the maybe_rotate_key of
\* periodic_tasks. What the calls return is not followed here: each asks for
\* one version and a response holds one.

NextRotate ==
    \/ \E g \in Workers : GenerateCall(g, 1)
    \/ \E g \in Workers : AttemptReturns(g, <<"a">>)
    \/ \E g \in Workers : AttemptFails(g)
    \/ \E g \in Workers : RotateStore(g)
    \/ \E g \in Workers : RotateKey(g)
    \/ \E g \in Workers : RotateSet(g)
    \/ \E g \in Workers : GenerateDone(g)
    \/ MaybeRotateKey
    \/ MaybeRotateStore
    \/ MaybeRotateKeyed
    \/ MaybeRotateSet
    \/ MaybeRotateDone

SpecRotate == InitGenerate /\ [][NextRotate]_vars

(* ------------- split_paraphrases (SpecSplit) --------------------------- *)

\* A call of split_paraphrases on any text of up to MaxTextLen tokens and any
\* count a request may ask for.

InitSplit ==
    /\ InitStore /\ InitTasks /\ InitGhost /\ InitManager(OneKey) /\ InitDialog(DefaultEnv)
    /\ \E text \in AllTexts, expected \in AllowedCounts :
          split = [NoSplit EXCEPT !.text = text, !.expected = expected]

\* split_paraphrases(text, expected)
SplitCall ==
    /\ ~split.called
    /\ split' = [split EXCEPT !.called = TRUE,
                              !.out = split_paraphrases(split.text, split.expected)]
    /\ UNCHANGED <<dialog, bot, keys, index, api_key, gen, rot>>

NextSplit == SplitCall

SpecSplit == InitSplit /\ [][NextSplit]_vars

(* ------------------- claims on the ledger (SpecLedger) ----------------- *)

\* the counts of the commitUsage calls of user u that committed and whose event
\* batch is still to be written
PendingLog(u) ==
    LET S == {t \in Tasks : pc[t] = "inc_log" /\ req[t].user = u}
        RECURSIVE Sum(_)
        Sum(T) == IF T = {} THEN 0
                  ELSE LET x == CHOOSE y \in T : TRUE IN req[x].count + Sum(T \ {x})
    IN Sum(S)

\* C1: after the commitUsage calls of one calendar day, nothing else having
\* touched the account's counters that day, paraphrase_today is the sum of their
\* counts and paraphrase_total has grown since the day began by that same sum.
C1_SameDaySum ==
    \A u \in Users :
        (dayLog[u].clean /\ dayLog[u].committed > 0) =>
            /\ users[u].last_paraphrase_date = nowDate
            /\ users[u].paraphrase_today = dayLog[u].committed
            /\ users[u].paraphrase_total = dayLog[u].total0 + dayLog[u].committed

\* two calls (no single count is 3) on the second day, after usage on the first
C1_Witness ==
    \E u \in Users :
        /\ nowDate = 2
        /\ dayLog[u].clean
        /\ dayLog[u].committed = 3
        /\ dayLog[u].total0 > 0
        /\ users[u].paraphrase_today = 3

\* C2: a commitUsage(id, c) that finds last_paraphrase_date different from the
\* day of the call writes paraphrase_today = c, whatever the previous day's value
\* was, adds c to paraphrase_total and sets last_paraphrase_date to that day.
C2_Rollover ==
    [][\A t \in Tasks :
          (pc[t] = "inc_txn" /\ pc'[t] = "inc_log") =>
              LET u == req[t].user
                  c == req[t].count
                  today == snap[t].today_str
              IN users[u].last_paraphrase_date # today =>
                    /\ users'[u].paraphrase_today = c
                    /\ users'[u].paraphrase_total = users[u].paraphrase_total + c
                    /\ users'[u].last_paraphrase_date = today]_vars

\* the day after a day with usage, one call has committed: the old value is gone
C2_Witness ==
    \E u \in Users :
        /\ nowDate = 2
        /\ dayLog[u].clean
        /\ dayLog[u].total0 >= 2
        /\ dayLog[u].committed = 1
        /\ users[u].paraphrase_today = 1
        /\ users[u].last_paraphrase_date = 2

\* C3: however the transactions of commitUsage and of the referral credit
\* interleave, no update is lost: every account's counters are what the committed
\* operations give when applied one after another, and paraphrase_total is the
\* sum of the committed counts (the logged events and those about to be logged)
\* plus the referral bonuses.
C3_NoLostUpdate ==
    \A u \in Users :
        /\ users[u].paraphrase_total = serial[u].paraphrase_total
        /\ users[u].paraphrase_today = serial[u].paraphrase_today
        /\ users[u].last_paraphrase_date = serial[u].last_paraphrase_date
        /\ users[u].paraphrase_total =
               paraphrase_events[u] + PendingLog(u) + REFERRAL_BONUS * users[u].invites

\* a credit transaction that read the account is overtaken by a commitUsage of
\* the same user and has to run again
C3_Witness ==
    \E t1, t2 \in Tasks :
        /\ pc[t1] = "credit_txn" /\ stale[t1]
        /\ pc[t2] = "inc_log"
        /\ req[t1].user = req[t2].user
        /\ snap[t1].doc.paraphrase_today # users[req[t1].user].paraphrase_today

(* ------------------- claims on the request flow (Spec) ----------------- *)

Refused == {"NeedsVerification", "DailyLimitExceeded"}

\* task t takes the decision of a request with a text and an allowed count
Decides(t) ==
    /\ pc[t] = "idle"
    /\ pc'[t] # "idle"
    /\ req'[t].op = "paraphrase"
    /\ req'[t].decision # "Rejected"

Counters(doc) == <<doc.paraphrase_total, doc.paraphrase_today, doc.last_paraphrase_date>>

\* today's usage of an account: the stored counter counts only on its own day
UsedToday(doc) == IF doc.last_paraphrase_date = nowDate THEN doc.paraphrase_today ELSE 0

OnlyTask(t) == \A x \in Tasks \ {t} : pc[x] = "idle"

LargestCount == CHOOSE c \in AllowedCounts : \A d \in AllowedCounts : d <= c

IsPrefix(s, full) == Len(s) <= Len(full) /\ s = SubSeq(full, 1, Len(s))

\* what an Allowed request of `count` does, in order
AllowedTrace(count) ==
    <<Event("generate", count, FALSE)>>
    \o [i \in 1..count |-> Event("paraphrase", i, i = count)]
    \o <<Event("commit", count, FALSE)>>

\* C4: a request is answered NeedsVerification exactly when the account is
\* unverified and its paraphrase_total is at least VERIFICATION_THRESHOLD (10).
C4_GateAtThreshold ==
    [][\A t \in Tasks :
          Decides(t) =>
              LET user == users[req'[t].user]
              IN (req'[t].decision = "NeedsVerification") <=>
                     (~user.verified /\ user.paraphrase_total >= VERIFICATION_THRESHOLD)]_vars

\* C5: an account that is unverified with paraphrase_total >= VERIFICATION_THRESHOLD
\* and whose paraphrase_today + count exceeds DAILY_LIMIT is answered
\* NeedsVerification, never DailyLimitExceeded.
C5_VerificationFirst ==
    [][\A t \in Tasks :
          Decides(t) =>
              LET user == users[req'[t].user]
              IN (/\ ~user.verified
                  /\ user.paraphrase_total >= VERIFICATION_THRESHOLD
                  /\ user.paraphrase_today + req'[t].count > DAILY_LIMIT)
                     => req'[t].decision = "NeedsVerification"]_vars

\* C6: a request that is not answered NeedsVerification is answered
\* DailyLimitExceeded exactly when paraphrase_today + count > DAILY_LIMIT, and
\* Allowed otherwise; paraphrase_today + count = DAILY_LIMIT is Allowed. The
\* decision is checked on every reachable account for every count, and on the
\* requests the handler decides.
C6_DailyLimitBoundary ==
    /\ [](\A u \in Users, count \in Counts :
            LET decision == check_allowance(get_user(users[u]), count)
                over == users[u].paraphrase_today + count > DAILY_LIMIT
            IN decision # "NeedsVerification" =>
                   decision = (IF over THEN "DailyLimitExceeded" ELSE "Allowed"))
    /\ [][\A t \in Tasks :
          (Decides(t) /\ req'[t].decision # "NeedsVerification") =>
              LET user == users[req'[t].user]
                  over == user.paraphrase_today + req'[t].count > DAILY_LIMIT
              IN /\ over => req'[t].decision = "DailyLimitExceeded"
                 /\ ~over => req'[t].decision = "Allowed"]_vars

\* 18 used, 2 requested: allowed, and the provider call is under way
C6_Witness ==
    \E t \in Tasks :
        /\ OnlyTask(t)
        /\ pc[t] = "generating"
        /\ req[t].decision = "Allowed"
        /\ req[t].count = 2
        /\ users[req[t].user].paraphrase_today = 18

\* C7 as stated: no account's paraphrase_today ever exceeds DAILY_LIMIT.
C7_NeverAboveLimit ==
    \A u \in Users : users[u].paraphrase_today <= DAILY_LIMIT

\* C7 amended: paraphrase_today exceeds DAILY_LIMIT by at most the largest allowed
\* count for each further request in flight beside the one that commits.
C7_BoundedOvershoot ==
    \A u \in Users :
        users[u].paraphrase_today <= DAILY_LIMIT + LargestCount * (Cardinality(Tasks) - 1)

\* two requests checked at 16 and both committed 4
C7_Witness ==
    \E u \in Users : users[u].paraphrase_today = DAILY_LIMIT + LargestCount

\* C8: a refused request makes no provider call and sends no paraphrase, and none
\* of its steps changes the account's paraphrase_total, paraphrase_today or
\* last_paraphrase_date.
C8_RefusedFrame ==
    /\ [](\A t \in Tasks :
            req[t].decision \in Refused =>
                \A i \in 1..Len(trace[t]) :
                    trace[t][i].kind \in {"reply_verify", "reply_limit_invite"})
    /\ [][\A t \in Tasks :
            (req'[t].decision \in Refused /\ pc'[t] # pc[t]) =>
                LET u == req'[t].user
                IN /\ Counters(users'[u]) = Counters(users[u])
                   /\ paraphrase_events' = paraphrase_events]_vars

\* one request refused for the daily limit (its invite code written) and one
\* refused at the gate, both answered
C8_Witness ==
    \E t1, t2 \in Tasks :
        /\ pc[t1] = "done" /\ req[t1].decision = "DailyLimitExceeded"
        /\ trace[t1] = <<Event("reply_limit_invite", 0, TRUE)>>
        /\ users[req[t1].user].invite_code # NoCode
        /\ pc[t2] = "done" /\ req[t2].decision = "NeedsVerification"
        /\ req[t2].user \in verification_messages

\* C9: a request with a count outside {1, 2, 4} or with an empty text gets one
\* rejection message and changes nothing: no document of any collection is
\* written and no provider call is made.
C9_InvalidRejected ==
    /\ [](\A t \in Tasks :
            (req[t].op = "paraphrase"
                /\ (req[t].text = "" \/ req[t].count \notin AllowedCounts)) =>
                /\ pc[t] = "done"
                /\ Len(trace[t]) = 1
                /\ trace[t][1].kind \in {"reply_no_message", "reply_invalid_count"})
    /\ [][\A t \in Tasks :
            (req'[t].op = "paraphrase" /\ pc'[t] # pc[t]
                /\ (req'[t].text = "" \/ req'[t].count \notin AllowedCounts)) =>
                UNCHANGED <<users, referrals, paraphrase_events,
                            verification_messages>>]_vars

\* count 3 rejected for an account that has usage, and an empty text rejected
C9_Witness ==
    \E t1, t2 \in Tasks :
        /\ pc[t1] = "done" /\ req[t1].count = 3 /\ req[t1].text # ""
        /\ trace[t1] = <<Event("reply_invalid_count", 0, FALSE)>>
        /\ users[req[t1].user].paraphrase_total > 0
        /\ pc[t2] = "done" /\ req[t2].text = "" /\ req[t2].count \in AllowedCounts
        /\ trace[t2] = <<Event("reply_no_message", 0, FALSE)>>

\* C10: an Allowed request calls generate once, then sends its `count` messages,
\* the last and only the last with the buttons, then commits once; the commit
\* adds `count` to paraphrase_total and to the day's usage.
C10_AllowedOrder ==
    /\ [](\A t \in Tasks :
            req[t].decision = "Allowed" =>
                /\ IsPrefix(trace[t], AllowedTrace(req[t].count))
                /\ pc[t] = "done" => trace[t] = AllowedTrace(req[t].count)
                /\ pc[t] = "generating" => trace[t] = <<Event("generate", req[t].count, FALSE)>>)
    /\ [][\A t \in Tasks :
            (req[t].decision = "Allowed" /\ Len(trace'[t]) > Len(trace[t])
                /\ trace'[t][Len(trace'[t])].kind = "commit") =>
                LET u == req[t].user
                    c == req[t].count
                IN /\ users'[u].paraphrase_total = users[u].paraphrase_total + c
                   /\ users'[u].paraphrase_today = UsedToday(users[u]) + c
                   /\ users'[u].last_paraphrase_date = nowDate
                   /\ paraphrase_events'[u] = paraphrase_events[u] + c]_vars

\* "Hello world" with count 4 answered: four messages, then the commit
C10_Witness ==
    \E t \in Tasks :
        /\ pc[t] = "done"
        /\ req[t].decision = "Allowed"
        /\ req[t].count = 4
        /\ trace[t] = AllowedTrace(4)
        /\ users[req[t].user].paraphrase_today >= 4

(* --------------- claims on the callbacks (SpecCallback) ---------------- *)

\* the messages a handler sends to the user it serves
Replies == {"reply_no_message", "reply_invalid_count", "reply_verify",
            "reply_limit_invite", "paraphrase", "reply_welcome", "reply_earned",
            "reply_no_invites", "reply_error", "reply_new_message"}

Replied(t) == \E i \in 1..Len(trace[t]) : trace[t][i].kind \in Replies

\* C11: every inbound request that is rejected or fails is answered with a
\* message to the user: no handler returns (or raises to the dispatcher) without
\* having sent a reply.
C11_AlwaysAnswered ==
    \A t \in Tasks : pc[t] = "done" => Replied(t)

(* --------------- claims on the referrals (SpecReferral) ---------------- *)

\* the referral documents written for the new user id n
RecordsFor(n) == {i \in 1..Len(referrals) : referrals[i].new_user_id = n}

\* task t makes its apply_referral call in this step
Starts(t) == pc[t] = "idle" /\ pc'[t] # "idle" /\ req'[t].op = "start"

\* C12: apply_referral credits an inviter at most once for one new user id: a
\* call credits only when the new user's document did not exist and leaves it
\* existing for good, so every call for that id after a credited one returns
\* credited = False; a credit is REFERRAL_BONUS on paraphrase_total and 1 on
\* invites, made in the step that creates the new user's document; and no new
\* user id ever has two referral documents.
C12_CreditedAtMostOnce ==
    /\ [](\A n \in Users : Cardinality(RecordsFor(n)) <= 1)
    /\ [](\A n \in Users, code \in Payloads :
            users[n].exists =>
                \A r \in apply_referral(users, referrals, n, code) : ~r.credited)
    /\ [][/\ \A n \in Users : users[n].exists => users'[n].exists
          /\ \A t \in Tasks :
                (Starts(t) /\ req'[t].decision = "Credited") =>
                    /\ ~users[req'[t].user].exists
                    /\ Len(referrals') = Len(referrals) + 1
          /\ \A i \in Users :
                (users'[i].invites # users[i].invites \/ Len(referrals') # Len(referrals)) =>
                    \E t \in Tasks :
                        /\ Starts(t)
                        /\ ~users[req'[t].user].exists /\ users'[req'[t].user].exists
                        /\ \A j \in Users :
                              users'[j].invites # users[j].invites =>
                                  /\ users'[j].invites = users[j].invites + 1
                                  /\ users'[j].paraphrase_total =
                                         users[j].paraphrase_total + REFERRAL_BONUS]_vars

\* a second /start of an already credited new user, with the inviter's valid
\* code, while the first one still notifies the inviter
C12_Witness ==
    \E t1, t2 \in Tasks :
        /\ t1 # t2
        /\ req[t1].op = "start" /\ req[t1].decision = "Credited" /\ pc[t1] = "start_notify"
        /\ req[t2].op = "start" /\ req[t2].decision = "NotCredited"
        /\ req[t2].user = req[t1].user
        /\ users[req[t1].inviter_id].invites = 1
        /\ Cardinality(RecordsFor(req[t1].user)) = 1

\* C13: apply_referral fails closed: when the new user already has a document,
\* or no document holds the invite code, it returns (False, None), and the
\* users and referrals collections are what they were. In start_command the
\* only write that follows is create_or_get_user for the new user.
C13_FailsClosed ==
    /\ [](\A n \in Users, code \in Payloads :
            (users[n].exists \/ inviters_of(users, code) = {}) =>
                \A r \in apply_referral(users, referrals, n, code) :
                    /\ ~r.credited
                    /\ r.inviter_id = NoInviter
                    /\ r.users = users
                    /\ r.referrals = referrals)
    /\ [][\A t \in Tasks :
            (Starts(t) /\ req'[t].decision = "NotCredited") =>
                LET n == req'[t].user
                IN /\ referrals' = referrals
                   /\ req'[t].inviter_id = NoInviter
                   /\ ~req'[t].created
                   /\ users' = [users EXCEPT ![n] = create_or_get_user(@)]]_vars

\* one /start refused for a new user who was already referred once (the document
\* exists), one refused for a user no referral was ever written for
C13_Witness ==
    \E t1, t2 \in Tasks :
        /\ t1 # t2
        /\ req[t1].op = "start" /\ req[t1].decision = "NotCredited"
        /\ RecordsFor(req[t1].user) = {}
        /\ req[t2].op = "start" /\ req[t2].decision = "NotCredited"
        /\ RecordsFor(req[t2].user) # {}

\* the referral documents that name inviter i
RecordsOf(i) == {k \in 1..Len(referrals) : referrals[k].inviter_id = i}

\* C14: a crediting apply_referral takes effect all together or not at all: in
\* no state has apply_referral created the new user's document without the
\* referral document being there, and every account's invites is the number of
\* referral documents that name it (credit and document go together).
C14_ReferralAtomic ==
    /\ \A t \in Tasks :
          (req[t].op = "start" /\ req[t].created) => RecordsFor(req[t].user) # {}
    /\ \A i \in Users : users[i].invites = Cardinality(RecordsOf(i))

\* C15: nobody is credited for referring themselves: apply_referral called for
\* a new user id with the code that this user's own document holds returns
\* credited = False, and no referral document has its inviter_id equal to its
\* new_user_id.
C15_NoSelfReferral ==
    /\ [](\A k \in 1..Len(referrals) :
            referrals[k].inviter_id # referrals[k].new_user_id)
    /\ [](\A n \in Users, code \in Payloads :
            n \in inviters_of(users, code) =>
                \A r \in apply_referral(users, referrals, n, code) :
                    ~r.credited /\ r.inviter_id = NoInviter)
    /\ [][\A t \in Tasks :
            (Starts(t) /\ req'[t].user \in inviters_of(users, req'[t].code)) =>
                /\ req'[t].decision # "Credited"
                /\ referrals' = referrals
                /\ users' = users]_vars

\* a user who has invited someone sends /start with the own code
C15_Witness ==
    \E t \in Tasks :
        /\ req[t].op = "start"
        /\ req[t].decision = "NotCredited"
        /\ users[req[t].user].invite_code = req[t].code
        /\ users[req[t].user].invites = 1

\* task t makes its acknowledge_referrals_and_apply_credits call in this step
\* and the call returns
Acknowledges(t) ==
    /\ pc[t] = "idle" /\ pc'[t] # "idle"
    /\ req'[t].op = "try_invite" /\ req'[t].decision = "Returned"

\* C16: acknowledge_referrals_and_apply_credits called again for the same
\* inviter, no apply_referral in between, returns 0, marks no document and leaves
\* the store as the first call left it (also when the day changed in between);
\* and every call that returns 0 leaves the referrals and the inviter's
\* paraphrase_today, paraphrase_total and last_paraphrase_date unchanged.
C16_AckIdempotent ==
    /\ [](\A u \in Users, day \in nowDate..MaxDay :
            LET r1 == acknowledge_referrals_and_apply_credits(users, referrals, u, nowDate)
                r2 == acknowledge_referrals_and_apply_credits(r1.users, r1.referrals, u, day)
            IN /\ r2.returned = 0
               /\ r2.referrals = r1.referrals
               /\ r2.users = r1.users)
    /\ [][\A t \in Tasks :
            (Acknowledges(t) /\ req'[t].count = 0) =>
                /\ referrals' = referrals
                /\ users' = users]_vars

\* Try Again pressed after an earlier press had acknowledged two referrals and
\* zeroed the day's usage: it returns 0
C16_Witness ==
    \E t \in Tasks :
        /\ req[t].op = "try_invite" /\ req[t].decision = "Returned"
        /\ req[t].count = 0
        /\ req[t].acked = 2
        /\ fetch_unacknowledged(req[t].user) = {}
        /\ users[req[t].user].paraphrase_total > 2 * REFERRAL_BONUS

\* the documents apply_credit may find: any stored counter up to the highest
\* value a day can reach, dated today, earlier or never
CreditInputs ==
    {[NewUserDoc EXCEPT !.paraphrase_today = u, !.paraphrase_total = u + extra,
                        !.last_paraphrase_date = date] :
        u \in 0..(DAILY_LIMIT + LargestCount), extra \in {0, REFERRAL_BONUS},
        date \in NoDate..MaxDay}

\* apply_credit on every such document, for k documents fetched on any day
CreditLaw ==
    \A doc \in CreditInputs, k \in 1..Cardinality(Users), today \in 1..MaxDay :
        LET out == apply_credit(doc, k * CREDIT_PER_REFERRAL, today)
            u == IF doc.last_paraphrase_date = today THEN doc.paraphrase_today ELSE 0
        IN /\ out.paraphrase_today = Max(0, u - REFERRAL_BONUS * k)
           /\ out.paraphrase_today >= 0
           /\ out.paraphrase_total = doc.paraphrase_total

\* C18: a call that finds k >= 1 unacknowledged documents returns k, marks
\* exactly those k documents, and writes paraphrase_today = max(0, u - 20 * k),
\* u being the stored paraphrase_today when last_paraphrase_date is today and 0
\* otherwise; paraphrase_total stays and paraphrase_today is never negative.
C18_CreditArithmetic ==
    /\ []CreditLaw
    /\ [][\A t \in Tasks :
            Acknowledges(t) =>
                LET u == req'[t].user
                    found == fetch_unacknowledged(u)
                    k == Cardinality(found)
                IN k >= 1 =>
                    /\ req'[t].count = k
                    /\ Len(referrals') = Len(referrals)
                    /\ \A i \in 1..Len(referrals) :
                          referrals'[i] =
                              [referrals[i] EXCEPT !.acknowledged = @ \/ i \in found]
                    /\ users'[u].paraphrase_today =
                           Max(0, UsedToday(users[u]) - REFERRAL_BONUS * k)
                    /\ users'[u].paraphrase_today >= 0
                    /\ users'[u].paraphrase_total = users[u].paraphrase_total
                    /\ \A v \in Users \ {u} : users'[v] = users[v]]_vars

\* Try Again returned 2 for an inviter who had used paraphrases today: the
\* day's counter is back at 0, the total keeps usage and both bonuses
C18_Witness ==
    \E t \in Tasks :
        /\ req[t].op = "try_invite" /\ req[t].decision = "Returned"
        /\ req[t].count = 2
        /\ pc[t] = "done"
        /\ trace[t] = <<Event("reply_earned", 2, FALSE)>>
        /\ users[req[t].user].last_paraphrase_date = nowDate
        /\ users[req[t].user].paraphrase_today = 0
        /\ users[req[t].user].paraphrase_total = 2 * REFERRAL_BONUS + 1

(* ------------- claims on the acknowledgment (SpecLedger) --------------- *)

\* the acknowledge calls for inviter u that have fetched and not yet returned;
\* each returns, and credits, the number of documents it fetched
AckCalls(u) == {t \in Tasks : pc[t] \in {"ack_batch", "credit_txn"} /\ req[t].user = u}

\* the counts the calls of T are going to return, added up
CreditedCounts(T) ==
    LET RECURSIVE Sum(_)
        Sum(S) == IF S = {} THEN 0
                  ELSE LET x == CHOOSE y \in S : TRUE IN req[x].count + Sum(S \ {x})
    IN Sum(T)

WithinTotal(doc) == 0 <= doc.paraphrase_today /\ doc.paraphrase_today <= doc.paraphrase_total

\* update_counts and apply_credit on a user id that has no document
NoAccountLaw ==
    \A count \in AllowedCounts, k \in 1..Cardinality(Users), today \in 1..MaxDay :
        /\ WithinTotal(update_counts(NoDoc, count, today))
        /\ WithinTotal(apply_credit(NoDoc, k * CREDIT_PER_REFERRAL, today))

\* C19: in every reachable state every account has
\* 0 <= paraphrase_today <= paraphrase_total, whatever create_or_get_user,
\* increment_paraphrases, apply_referral and the acknowledgment with its credit
\* did and however their transactions interleaved; the documents that
\* update_counts and apply_credit create for an id without account satisfy it too.
C19_TodayWithinTotal ==
    /\ NoAccountLaw
    /\ \A u \in Users : WithinTotal(users[u])
    /\ \A t \in Tasks : WithinTotal(snap[t].doc)

\* an inviter whose referral was acknowledged and credited has used paraphrases
\* again: the day's counter is below the total by the bonus and the credited usage
C19_Witness ==
    \E u \in Users :
        /\ \E k \in RecordsOf(u) : referrals[k].acknowledged
        /\ users[u].paraphrase_today > 0
        /\ users[u].paraphrase_total > REFERRAL_BONUS + users[u].paraphrase_today
        /\ \A t \in Tasks : pc[t] = "idle"

(* ------------- claims on the invite codes (SpecLedger) ---------------- *)

\* two of the draws random.randint(1000, 9999) can give
Draws == {1000, 9999}

\* the documents a user of the ledger may have when ensure_invite_code is called
InviteDocs(u) ==
    {NoDoc, NewUserDoc}
        \cup {[NewUserDoc EXCEPT !.invite_code = make_invite_code(u, s),
                                 !.paraphrase_total = n, !.paraphrase_today = n] :
                 s \in Draws, n \in {0, 1}}

\* ensure_invite_code returns the code of the document when it has one, whatever
\* it draws, and otherwise the code it draws, which the document then holds;
\* the codes of two users differ
InviteCodeLaw ==
    \A u \in LedgerUsers : \A doc \in InviteDocs(u), s \in Draws :
        LET after == ensure_invite_code(u, doc, s)
        IN /\ after.exists /\ after.invite_code # NoCode
           /\ doc.invite_code # NoCode => after = doc
           /\ doc.invite_code = NoCode => after.invite_code = make_invite_code(u, s)
           /\ \A v \in LedgerUsers, t \in Draws :
                 v # u => make_invite_code(v, t) # after.invite_code

\* C25: ensure_invite_code returns the invite code the account has, or draws
\* one and stores it; a code once stored is returned by every later call and no
\* operation changes it; no two accounts ever hold the same code.
C25_InviteCodeStable ==
    /\ []InviteCodeLaw
    /\ [](\A u, v \in Users :
            (u # v /\ users[u].invite_code # NoCode) =>
                users[u].invite_code # users[v].invite_code)
    /\ [][\A u \in Users :
            users[u].invite_code # NoCode =>
                users'[u].invite_code = users[u].invite_code]_vars

\* both ledger users hold a code, one of them has since been credited a
\* referral and has used the bot
C25_Witness ==
    /\ users["u1"].invite_code = make_invite_code("u1", 1000)
    /\ users["u2"].invite_code = make_invite_code("u2", 1000)
    /\ users["u1"].invites > 0
    /\ users["u1"].paraphrase_today > 0

(* ------------- claims on late referrals (SpecAck) ---------------------- *)

\* the step is the acknowledgment batch of the call of task t
Batches(t) == pc[t] = "ack_batch" /\ pc'[t] = "credit_txn"

GenerateLaw ==
    \A response_text \in AllTexts, count \in GenCounts :
        Len(decompose(response_text, count)) = count

\* C20: a call of generate_paraphrases never raises and returns exactly count
\* strings, whatever the provider does: no credential, every attempt failing,
\* a response with no text, or a response with fewer than count versions.
C20_ExactlyCount ==
    /\ GenerateLaw
    /\ \A g \in Workers :
        /\ gen[g].attempt <= MAX_RETRIES
        /\ gen[g].pc = "returned" =>
               ~gen[g].is_none /\ Len(gen[g].result) = gen[g].count

\* one call returned four fallbacks after its third attempt failed, while
\* another returned one version of the response and one fallback
C20_Witness ==
    \E g, h \in Workers :
        /\ gen[g].pc = "returned" /\ gen[g].attempt = MAX_RETRIES
        /\ gen[g].count = 4
        /\ \A i \in 1..4 : gen[g].result[i] = Fallback(i)
        /\ gen[h].pc = "returned" /\ gen[h].count = 2
        /\ gen[h].result = <<Piece(<<"a">>), Fallback(2)>>

AllFallbacks(call) ==
    /\ Len(call.result) = call.count
    /\ \A i \in 1..call.count : call.result[i] = Fallback(i)

\* C21: a call makes at most three provider attempts and then ends. Attempt
\* number k is made only after k attempts of the call have failed, an attempt
\* that does not fail ends the call with its result, and once three attempts
\* have failed the call returns count fallbacks, whatever the number of
\* credentials.
C21_AtMostThreeAttempts ==
    /\ [](\A g \in Workers :
            /\ gen[g].attempt <= MAX_RETRIES
            /\ gen[g].failed <= MAX_RETRIES + 1
            /\ gen[g].pc = "attempt" => gen[g].failed = gen[g].attempt
            /\ gen[g].pc \in {"rotate_store", "rotate_key", "rotate_set"} =>
                   gen[g].failed = gen[g].attempt + 1 /\ gen[g].attempt < MAX_RETRIES
            /\ gen[g].pc = "returned" =>
                   /\ ~gen[g].is_none
                   /\ gen[g].failed = MAX_RETRIES + 1 => AllFallbacks(gen[g]))
    /\ [][\A g \in Workers :
            /\ (gen[g].pc = "attempt" /\ gen'[g] # gen[g]
                    /\ gen'[g].failed = gen[g].failed) =>
                   gen'[g].pc = "returned"
            /\ (gen[g].pc = "attempt" /\ gen'[g].pc = "returned"
                    /\ gen'[g].failed = gen[g].failed + 1) =>
                   gen'[g].failed = MAX_RETRIES + 1]_vars

\* with a single credential, one call has returned two fallbacks after three
\* failed attempts and another has returned the response of its second attempt
C21_Witness ==
    /\ Len(keys) = 1
    /\ \E g, h \in Workers :
        /\ gen[g].pc = "returned" /\ gen[g].failed = MAX_RETRIES + 1
        /\ gen[g].count = 2 /\ AllFallbacks(gen[g])
        /\ gen[h].pc = "returned" /\ gen[h].failed = 1
        /\ gen[h].result = <<Piece(<<"a">>), Piece(<<"b">>)>>

\* the call's result holds a version taken from the text of a response
HoldsVersion(call) ==
    \E i \in 1..Len(call.result) :
        call.result[i].kind = "text" /\ call.result[i] # Piece(ReprText)

\* C29: a response that is empty or malformed counts as a failed attempt and
\* goes to the retry path: an attempt ends the call without having failed only
\* with a result that holds at least one version from the response's text.
C29_EmptyResponseRetried ==
    [][\A g \in Workers :
        (/\ gen[g].pc = "attempt" /\ gen'[g].pc = "returned"
         /\ gen'[g].failed = gen[g].failed) =>
            HoldsVersion(gen'[g])]_vars

(* ------------- claims on the splitter (SpecSplit) --------------------- *)

\* the segments of a text that the separator token delimits
Segments(text) == split_on(text, "SEP")

Trimmed(segs) == [i \in 1..Len(segs) |-> Piece(strip(segs[i]))]

\* C23: for a text made of segments joined by the separator token, none of
\* them blank, split_paraphrases returns the segments, each trimmed, in their
\* order when there are exactly `expected` of them, and the first `expected`
\* when there are more; so does the separator branch of _call_gemini.
C23_RoundTrip ==
    LET segs == Segments(split.text)
        wanted == IF Len(segs) > split.expected
                  THEN SubSeq(Trimmed(segs), 1, split.expected) ELSE Trimmed(segs)
    IN (/\ split.called
        /\ contains(split.text, "SEP")
        /\ Len(segs) >= split.expected
        /\ \A i \in 1..Len(segs) : strip(segs[i]) # <<>>) =>
           /\ split.out = wanted
           /\ decompose(split.text, split.expected) = wanted

\* two segments, the first followed by a blank, come back trimmed
C23_Witness ==
    /\ split.called
    /\ split.text = <<"a", "SP", "SEP", "b">> /\ split.expected = 2
    /\ split.out = <<Piece(<<"a">>), Piece(<<"b">>)>>

\* plain prose: words and single blanks or line breaks only
Prose(text) ==
    /\ \A i \in 1..Len(text) : text[i] \in {"a", "b", "SP"}
    /\ words(text) # <<>>

\* the words of the returned strings, one string after another
RECURSIVE WordsOf(_)
WordsOf(out) == IF out = <<>> THEN <<>> ELSE words(Head(out).body) \o WordsOf(Tail(out))

\* C24: for plain prose with no separator token, no numbered heading and no
\* blank line, and with at least `expected` words, split_paraphrases returns
\* exactly `expected` non-empty chunks that hold all the words of the text in
\* their order, none dropped and none repeated.
C24_ProseChunks ==
    (/\ split.called
     /\ Prose(split.text)
     /\ Len(words(split.text)) >= split.expected) =>
        /\ Len(split.out) = split.expected
        /\ \A i \in 1..Len(split.out) :
              split.out[i].kind = "text" /\ split.out[i].body # <<>>
        /\ WordsOf(split.out) = words(split.text)

\* C30: the first rule that finds a usable segment wins and a rule that finds
\* none gives way to the next one, so for a text that is not empty
\* split_paraphrases returns at least one string and at most `expected`.
C30_FirstUsableRuleWins ==
    (split.called /\ split.text # <<>>) =>
        Len(split.out) >= 1 /\ Len(split.out) <= split.expected

(* ------------- claims on the rotation (SpecRotate) --------------------- *)

RECURSIVE rotations(_, _, _)
rotations(idx, n, k) == IF k = 0 THEN idx ELSE rotations(next_index(idx, n), n, k - 1)

\* n rotations one after another bring a pool of n credentials back to its start
RotateCycleLaw ==
    \A ks \in KeyPools :
        Len(ks) >= 2 =>
            \A idx \in 0..(Len(ks) - 1) :
                /\ rotations(idx, Len(ks), Len(ks)) = idx
                /\ \A k \in 1..(Len(ks) - 1) : rotations(idx, Len(ks), k) # idx

\* C22: maybe_rotate_key with fewer than two credentials returns False and
\* leaves index and api_key as they were; with n >= 2 credentials it returns
\* True and, no executor thread writing meanwhile, leaves index at
\* (index + 1) mod n and api_key at the credential of that index, so that n
\* rotations in a row come back to the first credential.
C22_Rotate ==
    /\ []RotateCycleLaw
    /\ [][(rot.pc = "idle" /\ rot'.pc # "idle") =>
            IF Len(keys) < 2
            THEN /\ rot'.pc = "returned" /\ ~rot'.returned
                 /\ index' = index /\ api_key' = api_key
            ELSE rot'.pc = "store"]_vars
    /\ [][(rot.pc = "set" /\ rot'.pc = "returned") =>
            /\ rot'.returned
            /\ rot.alone =>
                   /\ index' = (rot.start + 1) % Len(keys)
                   /\ api_key' = keys[index' + 1]]_vars

\* a rotation of three credentials, undisturbed, has wrapped from the last
\* index to the first
C22_Witness ==
    /\ Len(keys) = 3
    /\ rot.pc = "returned" /\ rot.returned /\ rot.alone
    /\ rot.start = 2 /\ index = 0 /\ api_key = keys[1]

\* the step is the index store of a rotation, in a thread or in maybe_rotate_key
StoresIndex ==
    \/ \E g \in Workers : gen[g].pc = "rotate_store" /\ gen'[g].pc = "rotate_key"
    \/ rot.pc = "store" /\ rot'.pc = "key"

\* C26: rotations that overlap in time are serialized, none is lost: every
\* store of the index, by maybe_rotate_key or by the retry path of a call,
\* advances the index by one modulo the number of credentials.
C26_RotationsSerialized ==
    [][StoresIndex => index' = (index + 1) % Len(keys)]_vars

\* the credential after k in the pool
following(k) ==
    LET i == CHOOSE j \in 1..Len(keys) : keys[j] = k
    IN keys[(i % Len(keys)) + 1]

\* C27: with several credentials, every retry of a call is made with the
\* credential that follows the one of the attempt that just failed, and never
\* with that same credential, whatever other calls and maybe_rotate_key do
\* meanwhile.
C27_RetryWithNextCredential ==
    [][\A g \in Workers :
        (/\ Len(keys) > 1
         /\ gen[g].pc = "attempt" /\ gen[g].attempt > 0
         /\ gen'[g] # gen[g]) =>
            api_key = following(gen[g].used)]_vars

\* no rotation is between its first and its last step
NoRotationRunning ==
    /\ \A g \in Workers : gen[g].pc \notin {"rotate_store", "rotate_key", "rotate_set"}
    /\ rot.pc \notin {"store", "key", "set"}

\* C35: whenever no rotation is in progress, the index is within the pool and
\* api_key is the credential at the index, however the rotations of
\* maybe_rotate_key and of the retry paths of running calls have interleaved.
C35_PoolConsistent ==
    (NoRotationRunning /\ Len(keys) > 0) =>
        /\ 0 <= index /\ index < Len(keys)
        /\ api_key = keys[index + 1]

(* ------------------ claims on the allowance (Spec) --------------------- *)

\* C31: the daily counter is reset by the date for the allowance decision as
\* well. A request with an allowed count from an account whose
\* last_paraphrase_date is not today is never answered DailyLimitExceeded,
\* whatever paraphrase_today still holds from an earlier day.
C31_AllowanceResetsByDate ==
    [][\A t \in Tasks :
          (Decides(t) /\ users[req'[t].user].last_paraphrase_date # nowDate) =>
              req'[t].decision # "DailyLimitExceeded"]_vars

\* C32: being credited for a referral never blocks the inviter. When a
\* start_command credits an inviter through apply_referral, every request of an
\* allowed count that would have been Allowed on the inviter's record before the
\* credit is still Allowed on the record after it.
C32_CreditNeverBlocks ==
    [][\A t \in Tasks :
          (Starts(t) /\ req'[t].decision = "Credited") =>
              \A i \in Users, count \in AllowedCounts :
                  (/\ users'[i].invites # users[i].invites
                   /\ check_allowance(users[i], count) = "Allowed") =>
                      check_allowance(users'[i], count) = "Allowed"]_vars

(* -------- claims on failures of the acknowledgment (SpecReferral) ------- *)

\* C33: a referral document is acknowledged only if its credit is applied, also
\* when the credit transaction fails or the process stops after the batch was
\* committed. Every step that sets acknowledged on a document is a call of
\* acknowledge_referrals_and_apply_credits for its inviter that returns a count
\* and has applied the credit; a call that raises leaves the documents it
\* fetched unacknowledged.
C33_AcknowledgedOnlyIfCredited ==
    [][/\ \A k \in 1..Len(referrals) :
             (~referrals[k].acknowledged /\ referrals'[k].acknowledged) =>
                 \E t \in Tasks :
                     /\ Acknowledges(t)
                     /\ req'[t].user = referrals[k].inviter_id
                     /\ req'[t].count > 0
                     /\ users'[req'[t].user] =
                            apply_credit(users[req'[t].user],
                                         req'[t].count * CREDIT_PER_REFERRAL, nowDate)
       /\ \A t \in Tasks :
             (/\ pc[t] = "idle" /\ pc'[t] # "idle"
              /\ req'[t].op = "try_invite" /\ req'[t].decision = "Raised") =>
                 referrals' = referrals]_vars

(* ------- SpecAdmin: message updates, sessions and the admin flow -------- *)

\* SpecAdmin: poll_updates_loop dispatching message updates that carry a text
\* other than /start, with handlers/user_handler.text_message and
\* handlers/admin_handler.admin_entry and catch_admin_password as asyncio tasks
\* of the one event loop. A task runs from one suspension to the next as one
\* step; the only suspension of these handlers is reply_text. Tasks created by
\* asyncio.create_task take their first step in the order of their creation.
\* Texts are taken as stripped.

MaxUpdates == 3

DialogUsers == {"u1", "u2"}

\* message texts: a plain text, the admin password, the admin command in both
\* of its forms
MessageTexts == {"hello", AdminPassword, "secret", "/secret"}

HandlerNames == {"text_message", "catch_admin_password", "admin_entry"}

\* the event loop's ready queue is first-in first-out: every task created for an
\* earlier update has taken its first step
earlier_started(i) ==
    \A j \in 1..(i - 1) : \A h \in HandlerNames : updates[j].tasks[h] # "ready"

\* catch_admin_password up to its reply: where the call stands after its checks
catch_admin_password(e, awaiting, user_id, text) ==
    IF user_id \notin awaiting THEN "done"
    ELSE IF e.admin_password_hash = NoHash THEN "reply_unconfigured"
    ELSE IF verify_password(text, e.admin_password_hash) THEN "reply_authenticated"
    ELSE "reply_incorrect"

\* poll_updates_loop takes the next message update and creates its handler tasks
PollUpdate(u, text) ==
    /\ Len(updates) < MaxUpdates
    /\ updates' = Append(updates, [user |-> u, text |-> text, tasks |-> dispatch(env, text)])
    /\ UNCHANGED <<bot, gemini, env, user_sessions, session_docs,
                   awaiting_admin_password, admins>>

\* text_message up to its reply: the session is stored in memory and in the
\* store, the "how many versions" prompt is sent
TextMessage(i) ==
    /\ i \in 1..Len(updates)
    /\ updates[i].tasks.text_message = "ready"
    /\ earlier_started(i)
    /\ user_sessions' = [user_sessions EXCEPT ![updates[i].user] = updates[i].text]
    /\ session_docs' = [session_docs EXCEPT ![updates[i].user] = updates[i].text]
    /\ updates' = [updates EXCEPT ![i].tasks.text_message = "reply_prompt"]
    /\ UNCHANGED <<bot, gemini, env, awaiting_admin_password, admins>>

\* the prompt's reply_text returned or raised
TextMessageReplied(i) ==
    /\ i \in 1..Len(updates)
    /\ updates[i].tasks.text_message = "reply_prompt"
    /\ updates' = [updates EXCEPT ![i].tasks.text_message = "done"]
    /\ UNCHANGED <<bot, gemini, env, user_sessions, session_docs,
                   awaiting_admin_password, admins>>

\* admin_entry up to its reply: the user is awaited, "Enter admin password:" is sent
AdminEntry(i) ==
    /\ i \in 1..Len(updates)
    /\ updates[i].tasks.admin_entry = "ready"
    /\ earlier_started(i)
    /\ awaiting_admin_password' = awaiting_admin_password \cup {updates[i].user}
    /\ updates' = [updates EXCEPT ![i].tasks.admin_entry = "reply_enter"]
    /\ UNCHANGED <<bot, gemini, env, user_sessions, session_docs, admins>>

\* the reply_text of admin_entry returned or raised
AdminEntryReplied(i) ==
    /\ i \in 1..Len(updates)
    /\ updates[i].tasks.admin_entry = "reply_enter"
    /\ updates' = [updates EXCEPT ![i].tasks.admin_entry = "done"]
    /\ UNCHANGED <<bot, gemini, env, user_sessions, session_docs,
                   awaiting_admin_password, admins>>

\* catch_admin_password up to its reply: it returns for a user who is not
\* awaited; a right password registers the admin before the reply
CatchAdminPassword(i) ==
    /\ i \in 1..Len(updates)
    /\ updates[i].tasks.catch_admin_password = "ready"
    /\ updates[i].tasks.text_message # "ready"
    /\ earlier_started(i)
    /\ LET at == catch_admin_password(env, awaiting_admin_password,
                                      updates[i].user, updates[i].text)
       IN /\ updates' = [updates EXCEPT ![i].tasks.catch_admin_password = at]
          /\ admins' = IF at = "reply_authenticated"
                       THEN admins \cup {updates[i].user}
                       ELSE admins
    /\ UNCHANGED <<bot, gemini, env, user_sessions, session_docs,
                   awaiting_admin_password>>

\* the reply_text of catch_admin_password returned, and the user is no longer
\* awaited, or raised, and the pop is not reached
CatchAdminPasswordReplied(i, raised) ==
    /\ i \in 1..Len(updates)
    /\ updates[i].tasks.catch_admin_password
           \in {"reply_unconfigured", "reply_authenticated", "reply_incorrect"}
    /\ awaiting_admin_password' = IF raised
                                  THEN awaiting_admin_password
                                  ELSE awaiting_admin_password \ {updates[i].user}
    /\ updates' = [updates EXCEPT ![i].tasks.catch_admin_password = "done"]
    /\ UNCHANGED <<bot, gemini, env, user_sessions, session_docs, admins>>

InitAdmin ==
    /\ InitStore /\ InitTasks /\ InitGhost /\ InitManager(OneKey) /\ split = NoSplit
    /\ \E e \in Envs : InitDialog(e)

NextAdmin ==
    \/ \E u \in DialogUsers, text \in MessageTexts : PollUpdate(u, text)
    \/ \E i \in 1..MaxUpdates : TextMessage(i)
    \/ \E i \in 1..MaxUpdates : TextMessageReplied(i)
    \/ \E i \in 1..MaxUpdates : AdminEntry(i)
    \/ \E i \in 1..MaxUpdates : AdminEntryReplied(i)
    \/ \E i \in 1..MaxUpdates : CatchAdminPassword(i)
    \/ \E i \in 1..MaxUpdates, raised \in BOOLEAN : CatchAdminPasswordReplied(i, raised)

SpecAdmin == InitAdmin /\ [][NextAdmin]_vars

(* ---------------- claims on the admin flow (SpecAdmin) ------------------ *)

\* the text_message task of update i takes its first step
TextMessageStarts(i) ==
    /\ i \in 1..Len(updates)
    /\ updates[i].tasks.text_message = "ready"
    /\ updates'[i].tasks.text_message # "ready"

\* C34: while a user is in the admin password flow (awaited after admin_entry,
\* no password attempt processed yet), the user's next text message is handled
\* only as a password attempt: text_message does not store it as the session
\* text, in memory or in the store, and sends no "how many versions" prompt.
C34_PasswordOnly ==
    [][\A i \in 1..MaxUpdates :
          (TextMessageStarts(i) /\ updates[i].user \in awaiting_admin_password) =>
              /\ user_sessions'[updates[i].user] = user_sessions[updates[i].user]
              /\ session_docs'[updates[i].user] = session_docs[updates[i].user]
              /\ updates'[i].tasks.text_message # "reply_prompt"]_vars

====
